---------------------------- MODULE Spec2Model ----------------------------
(***************************************************************************)
(* Model of the PDF classification consumer: the queue-triggered handler   *)
(* (function_app.py) and the record-API helper (auth.py).                  *)
(*                                                                         *)
(* Python strings are sequences of one-character strings, so that split,   *)
(* join, lower, endswith and substring search are computed, not assumed.   *)
(* Python's None is the value NoneVal, which is no character string.       *)
(***************************************************************************)
EXTENDS Integers, Sequences, FiniteSets, TLC

(***************************************************************************)
(* Bounds of the model.                                                    *)
(***************************************************************************)
\* number of records another actor may create in the record store
MaxExternal == 1
\* number of calls a client makes on one AuthHelper (helper specification)
MaxCalls == 3
\* number of '/'-separated segments of the generated subjects
MaxSegments == 4

\* the handler invocations, each with an AuthHelper of its own
Runs == {1, 2}

(***************************************************************************)
(* Strings.                                                                *)
(***************************************************************************)
NoneVal == <<"<None>">>
EmptyStr == <<>>

\* a returned bool, told apart from "unset" (nothing returned yet)
PyBool(b) == IF b THEN "True" ELSE "False"

\* Python truthiness of an optional string: None and '' are falsy
Truthy(s) == s # NoneVal /\ s # EmptyStr

UpperChars == <<"A","B","C","D","E","F","G","H","I","J","K","L","M",
                "N","O","P","Q","R","S","T","U","V","W","X","Y","Z">>
LowerChars == <<"a","b","c","d","e","f","g","h","i","j","k","l","m",
                "n","o","p","q","r","s","t","u","v","w","x","y","z">>

LowerChar(c) ==
    IF \E i \in 1..Len(UpperChars) : UpperChars[i] = c
    THEN LowerChars[CHOOSE i \in 1..Len(UpperChars) : UpperChars[i] = c]
    ELSE c

\* str.lower()
Lower(s) == [i \in 1..Len(s) |-> LowerChar(s[i])]

\* str.endswith(suf)
EndsWith(s, suf) ==
    /\ Len(suf) <= Len(s)
    /\ SubSeq(s, Len(s) - Len(suf) + 1, Len(s)) = suf

\* sub in s
Contains(s, sub) ==
    \E i \in 1..(Len(s) - Len(sub) + 1) : SubSeq(s, i, i + Len(sub) - 1) = sub

\* the positions of the separator in s, as split scans them
SepPositions(s, sep) == {i \in 1..Len(s) : s[i] = sep}

\* the k-th of the positions idx, from the left
SepAt(idx, k) ==
    CHOOSE i \in idx : Cardinality({j \in idx : j < i}) = k - 1

\* str.split(sep) for a one-character separator: the pieces between
\* consecutive separators, empty pieces kept
Split(s, sep) ==
    LET idx == SepPositions(s, sep)
        n == Cardinality(idx) + 1
        pieces == [k \in 1..n |->
                     SubSeq(s, IF k = 1 THEN 1 ELSE SepAt(idx, k - 1) + 1,
                               IF k = n THEN Len(s) ELSE SepAt(idx, k) - 1)]
    IN  SubSeq(pieces, 1, n)

RECURSIVE Join(_, _)
\* sep.join(parts)
Join(parts, sep) ==
    IF parts = <<>> THEN <<>>
    ELSE IF Len(parts) = 1 THEN parts[1]
         ELSE parts[1] \o <<sep>> \o Join(Tail(parts), sep)

\* x in parts
InList(parts, x) == \E i \in 1..Len(parts) : parts[i] = x

\* list.index(x), as a 1-based position; only used when x is in parts
IndexOf(parts, x) ==
    CHOOSE i \in 1..Len(parts) :
        /\ parts[i] = x
        /\ \A j \in 1..(i - 1) : parts[j] # x

\* parts[i:] for a 1-based position i
ListFrom(parts, i) == SubSeq(parts, i, Len(parts))

\* position of the last occurrence of character c in s, 0 when there is none
LastIndexOf(s, c) ==
    IF \E i \in 1..Len(s) : s[i] = c
    THEN CHOOSE i \in 1..Len(s) :
            /\ s[i] = c
            /\ \A j \in (i + 1)..Len(s) : s[j] # c
    ELSE 0

\* os.path.splitext(p): <<root, ext>>; a leading run of dots is no extension
SplitExt(p) ==
    LET sepIdx == LastIndexOf(p, "/")
        dotIdx == LastIndexOf(p, ".")
    IN  IF /\ dotIdx > sepIdx
           /\ \E k \in (sepIdx + 1)..(dotIdx - 1) : p[k] # "."
        THEN <<SubSeq(p, 1, dotIdx - 1), SubSeq(p, dotIdx, Len(p))>>
        ELSE <<p, <<>>>>

(***************************************************************************)
(* Configuration (class Config, defaults).                                 *)
(***************************************************************************)
INPUT_CONTAINER == <<"s","t","a","m","p","e","d","s","t","o","r","a","g","e">>
CLASSIFICATION_CONTAINER == <<"c","l","a","s","s","i","f","i","c","a","t","i","o","n","s","t","o","r","a","g","e">>
RESULTS_CONTAINER == <<"r","e","s","u","l","t","s","t","o","r","a","g","e">>
METADATA_CONTAINER == <<"j","s","o","n","f","i","l","e","s">>

(***************************************************************************)
(* Notifications.  A queue message is either a body that json.loads        *)
(* rejects, or a CloudEvent: id and type ('' when absent), subject, and    *)
(* data (dataTruthy is FALSE for a missing or empty data object).          *)
(***************************************************************************)
BlobCreated == "Microsoft.Storage.BlobCreated"
BlobDeleted == "Microsoft.Storage.BlobDeleted"

EventId1 == <<"E","1">>
SubjInvoice == <<"/","b","l","o","b","S","e","r","v","i","c","e","s","/","d","e","f","a","u","l","t","/","c","o","n","t","a","i","n","e","r","s","/","s","t","a","m","p","e","d","s","t","o","r","a","g","e","/","b","l","o","b","s","/","i","n","v","o","i","c","e",".","p","d","f">>
UrlInvoice == <<"h","t","t","p","s",":","/","/","a","c","c","t",".","b","l","o","b",".","c","o","r","e",".","w","i","n","d","o","w","s",".","n","e","t","/","s","t","a","m","p","e","d","s","t","o","r","a","g","e","/","i","n","v","o","i","c","e",".","p","d","f">>
SubjNotes == <<"/","b","l","o","b","S","e","r","v","i","c","e","s","/","d","e","f","a","u","l","t","/","c","o","n","t","a","i","n","e","r","s","/","s","t","a","m","p","e","d","s","t","o","r","a","g","e","/","b","l","o","b","s","/","n","o","t","e","s",".","t","x","t">>
SubjClassified == <<"/","b","l","o","b","S","e","r","v","i","c","e","s","/","d","e","f","a","u","l","t","/","c","o","n","t","a","i","n","e","r","s","/","s","t","a","m","p","e","d","s","t","o","r","a","g","e","/","b","l","o","b","s","/","i","n","v","o","i","c","e","_","C","l","a","s","s","i","f","i","e","d","_","I","n","v","o","i","c","e",".","p","d","f">>
SubjOther == <<"/","b","l","o","b","S","e","r","v","i","c","e","s","/","d","e","f","a","u","l","t","/","c","o","n","t","a","i","n","e","r","s","/","r","e","s","u","l","t","s","t","o","r","a","g","e","/","b","l","o","b","s","/","i","n","v","o","i","c","e",".","p","d","f">>

SubjFolderMarker == <<"/","b","l","o","b","S","e","r","v","i","c","e","s","/","d","e","f","a","u","l","t","/","c","o","n","t","a","i","n","e","r","s","/","s","t","a","m","p","e","d","s","t","o","r","a","g","e","/","b","l","o","b","s","/","o","l","d","_","c","l","a","s","s","i","f","i","e","d","/","i","n","v","o","i","c","e",".","p","d","f">>

\* the subject and the URL the object store gives the blob name in container
SubjectPrefix == <<"/","b","l","o","b","S","e","r","v","i","c","e","s","/","d","e","f","a","u","l","t","/","c","o","n","t","a","i","n","e","r","s","/">>
BlobsSegment == <<"/","b","l","o","b","s","/">>
UrlPrefix == <<"h","t","t","p","s",":","/","/","a","c","c","t",".","b","l","o","b",".","c","o","r","e",".","w","i","n","d","o","w","s",".","n","e","t","/">>

Event(wellFormed, id, type, subject, dataTruthy, url, blobUrl) ==
    [wellFormed |-> wellFormed, id |-> id, type |-> type, subject |-> subject,
     dataTruthy |-> dataTruthy, url |-> url, blobUrl |-> blobUrl]

\* the messages delivered to the handler in the pipeline specification
Events ==
    { Event(TRUE, EventId1, BlobCreated, SubjInvoice, TRUE, UrlInvoice, <<>>),
      Event(TRUE, <<>>, BlobCreated, SubjInvoice, TRUE, UrlInvoice, <<>>),
      Event(TRUE, EventId1, BlobCreated, <<>>, TRUE, <<>>, UrlInvoice),
      Event(TRUE, EventId1, BlobDeleted, SubjInvoice, TRUE, UrlInvoice, <<>>),
      Event(TRUE, EventId1, "", SubjInvoice, TRUE, UrlInvoice, <<>>),
      Event(TRUE, EventId1, BlobCreated, SubjInvoice, FALSE, <<>>, <<>>),
      Event(TRUE, EventId1, BlobCreated, <<>>, TRUE, <<>>, <<>>),
      Event(TRUE, EventId1, BlobCreated, SubjNotes, TRUE, <<>>, <<>>),
      Event(TRUE, EventId1, BlobCreated, SubjClassified, TRUE, <<>>, <<>>),
      Event(TRUE, EventId1, BlobCreated, SubjOther, TRUE, <<>>, <<>>),
      Event(TRUE, EventId1, BlobCreated, SubjFolderMarker, TRUE, <<>>, <<>>),
      Event(FALSE, <<>>, "", <<>>, FALSE, <<>>, <<>>) }

\* the creation notification of the object <<container, name>>
EventFor(o) ==
    Event(TRUE, EventId1, BlobCreated,
          SubjectPrefix \o o[1] \o BlobsSegment \o o[2], TRUE,
          UrlPrefix \o o[1] \o <<"/">> \o o[2], <<>>)

(***************************************************************************)
(* storageQueueTrigger, lines 140-167: container and blob name.            *)
(***************************************************************************)
\* variant: the key is the one segment that follows 'blobs'
SubjectIdentityOneSegment(subject) ==
    LET subject_parts == Split(subject, "/")
    IN  IF /\ subject # <<>>
           /\ InList(subject_parts, <<"c","o","n","t","a","i","n","e","r","s">>)
           /\ InList(subject_parts, <<"b","l","o","b","s">>)
        THEN LET container_idx ==
                    IndexOf(subject_parts, <<"c","o","n","t","a","i","n","e","r","s">>) + 1
                 blob_idx == IndexOf(subject_parts, <<"b","l","o","b","s">>) + 1
             IN  << IF container_idx <= Len(subject_parts)
                    THEN subject_parts[container_idx] ELSE <<>>,
                    IF blob_idx <= Len(subject_parts)
                    THEN subject_parts[blob_idx] ELSE <<>> >>
        ELSE << <<>>, <<>> >>

\* lines 146-157: <<container_name, blob_name>> from the subject
SubjectIdentity(subject) ==
    LET subject_parts == Split(subject, "/")
    IN  IF /\ subject # <<>>
           /\ InList(subject_parts, <<"c","o","n","t","a","i","n","e","r","s">>)
           /\ InList(subject_parts, <<"b","l","o","b","s">>)
        THEN LET container_idx ==
                    IndexOf(subject_parts, <<"c","o","n","t","a","i","n","e","r","s">>) + 1
                 blob_idx == IndexOf(subject_parts, <<"b","l","o","b","s">>) + 1
             IN  << IF container_idx <= Len(subject_parts)
                    THEN subject_parts[container_idx] ELSE <<>>,
                    IF blob_idx <= Len(subject_parts)
                    THEN Join(ListFrom(subject_parts, blob_idx), "/") ELSE <<>> >>
        ELSE << <<>>, <<>> >>

\* variant: the URL is taken whenever there is one
ExtractIdentityUrlFirst(evt) ==
    LET blob_url == IF evt.url # <<>> THEN evt.url ELSE evt.blobUrl
        fromSubject == SubjectIdentity(evt.subject)
        url_parts == Split(blob_url, "/")
    IN  IF blob_url # <<>> /\ Len(url_parts) >= 5
        THEN << url_parts[4], Join(ListFrom(url_parts, 5), "/") >>
        ELSE fromSubject

\* lines 141, 160-167: the URL fallback, applied to what the subject gave
ExtractIdentity(evt) ==
    LET blob_url == IF evt.url # <<>> THEN evt.url ELSE evt.blobUrl
        fromSubject == SubjectIdentity(evt.subject)
        url_parts == Split(blob_url, "/")
    IN  IF fromSubject[2] = <<>> /\ blob_url # <<>> /\ Len(url_parts) >= 5
        THEN << url_parts[4], Join(ListFrom(url_parts, 5), "/") >>
        ELSE fromSubject

\* line 174
FileNameOf(blob_name) ==
    LET parts == Split(blob_name, "/") IN parts[Len(parts)]

\* variant: the type of the event is not compared with BlobCreated
NormalizeNoTypeCheck(evt) ==
    LET ident == ExtractIdentity(evt)
        file_name == FileNameOf(ident[2])
    IN  IF ~evt.wellFormed THEN "raise"
        ELSE IF evt.type = "" \/ ~evt.dataTruthy THEN "invalid"
        ELSE IF ident[1] = <<>> \/ ident[2] = <<>> THEN "invalid"
        ELSE IF ~EndsWith(Lower(file_name), <<".","p","d","f">>) THEN "skip"
        ELSE IF Contains(Lower(file_name), <<"_","c","l","a","s","s","i","f","i","e","d">>)
             THEN "skip"
        ELSE IF ident[1] # INPUT_CONTAINER THEN "skip"
        ELSE "process"

\* variant: the presence of type and data is not checked
NormalizeNoFieldCheck(evt) ==
    LET ident == ExtractIdentity(evt)
        file_name == FileNameOf(ident[2])
    IN  IF ~evt.wellFormed THEN "raise"
        ELSE IF evt.type # BlobCreated THEN "skip"
        ELSE IF ident[1] = <<>> \/ ident[2] = <<>> THEN "invalid"
        ELSE IF ~EndsWith(Lower(file_name), <<".","p","d","f">>) THEN "skip"
        ELSE IF Contains(Lower(file_name), <<"_","c","l","a","s","s","i","f","i","e","d">>)
             THEN "skip"
        ELSE IF ident[1] # INPUT_CONTAINER THEN "skip"
        ELSE "process"

\* variant: the container of the blob is not looked at
NormalizeNoContainerCheck(evt) ==
    LET ident == ExtractIdentity(evt)
        file_name == FileNameOf(ident[2])
    IN  IF ~evt.wellFormed THEN "raise"
        ELSE IF evt.type = "" \/ ~evt.dataTruthy THEN "invalid"
        ELSE IF evt.type # BlobCreated THEN "skip"
        ELSE IF ident[1] = <<>> \/ ident[2] = <<>> THEN "invalid"
        ELSE IF ~EndsWith(Lower(file_name), <<".","p","d","f">>) THEN "skip"
        ELSE IF Contains(Lower(file_name), <<"_","c","l","a","s","s","i","f","i","e","d">>)
             THEN "skip"
        ELSE "process"

\* variant: the extension of the file name is not looked at
NormalizeNoExtensionCheck(evt) ==
    LET ident == ExtractIdentity(evt)
        file_name == FileNameOf(ident[2])
    IN  IF ~evt.wellFormed THEN "raise"
        ELSE IF evt.type = "" \/ ~evt.dataTruthy THEN "invalid"
        ELSE IF evt.type # BlobCreated THEN "skip"
        ELSE IF ident[1] = <<>> \/ ident[2] = <<>> THEN "invalid"
        ELSE IF Contains(Lower(file_name), <<"_","c","l","a","s","s","i","f","i","e","d">>)
             THEN "skip"
        ELSE IF ident[1] # INPUT_CONTAINER THEN "skip"
        ELSE "process"

\* lines 122-191 and 241-243: what the handler decides from the message
\* alone: "raise" (the body does not parse), "invalid", "skip", or "process"
Normalize(evt) ==
    LET ident == ExtractIdentity(evt)
        file_name == FileNameOf(ident[2])
    IN  IF ~evt.wellFormed THEN "raise"
        ELSE IF evt.type = "" \/ ~evt.dataTruthy THEN "invalid"
        ELSE IF evt.type # BlobCreated THEN "skip"
        ELSE IF ident[1] = <<>> \/ ident[2] = <<>> THEN "invalid"
        ELSE IF ~EndsWith(Lower(file_name), <<".","p","d","f">>) THEN "skip"
        ELSE IF Contains(Lower(file_name), <<"_","c","l","a","s","s","i","f","i","e","d">>)
             THEN "skip"
        ELSE IF ident[1] # INPUT_CONTAINER THEN "skip"
        ELSE "process"


(***************************************************************************)
(* Values met on the way.                                                  *)
(***************************************************************************)
FileId1 == <<"F","1">>
OtherId == <<"F","9">>
Token1 == <<"T","1">>
Token2 == <<"T","2">>
CatInvoice == <<"I","n","v","o","i","c","e">>
CatSlash == <<"L","e","g","a","l","/","C","o","n","t","r","a","c","t">>

\* ids under which the record store may hold records
RecordIds == {FileId1, EventId1, OtherId}

(***************************************************************************)
(* State.                                                                  *)
(*   run[r]     the handler invocation r: its position and local values    *)
(*   helper[r]  the AuthHelper of invocation r (token, session header, and *)
(*              the position inside send_to_wmt_api)                       *)
(*   records    the record store: number of records held under each id     *)
(*   objects    the object store: the blobs written so far                 *)
(*   calls[r]   the requests invocation r sent to the login service, the   *)
(*              classification service and the object store, in order      *)
(*   external   number of records created by another actor                *)
(*   client[r]  number of calls a client made on helper r directly         *)
(*   env        the scenario: active, the invocations that receive a       *)
(*              message; clients, the helpers a client calls directly;     *)
(*              protocol, "pipeline" when a client calls a helper the way  *)
(*              process_pdf_classification does (login once, then          *)
(*              send_to_wmt_api once) or "any" for calls in any order;     *)
(*              "echo" when the notifications of the objects a run wrote   *)
(*              are delivered; record_api, whether the login and the       *)
(*              record API are configured                                  *)
(*   probe      a function of the program applied on its own: the          *)
(*              argument, how far the application went, the values got    *)
(***************************************************************************)
VARIABLES run, helper, records, objects, calls, external, client, env, probe

vars == <<run, helper, records, objects, calls, external, client, env, probe>>

\* call_classification_api returned None
NoResult == [present |-> FALSE, classification |-> NoneVal]

NoEvent == Event(FALSE, <<>>, "", <<>>, FALSE, <<>>, <<>>)

InitRun ==
    [pc |-> "idle", evt |-> NoEvent,
     subject_identity |-> << <<>>, <<>> >>,
     container_name |-> <<>>, blob_name |-> <<>>, file_name |-> <<>>,
     downloaded |-> FALSE, blob_file_id |-> <<>>, file_id |-> <<>>,
     decision |-> "none", login_success |-> "unset",
     classification_result |-> NoResult,
     upload_ok |-> FALSE, json_ok |-> FALSE, metadata_ok |-> FALSE,
     json_file_id |-> NoneVal,
     payload_source |-> "none", payload_file_id |-> NoneVal,
     wmt_called |-> FALSE, timed_out |-> "none",
     result |-> "none", outcome |-> "none"]

\* Responses of the record API: an HTTP status, a timeout or a connection
\* error (both RequestException).  applied says whether the store carried
\* the request out.
Resp(kind, status, applied) == [kind |-> kind, status |-> status, applied |-> applied]

\* no response received
NoResp == Resp("none", 0, FALSE)

\* AuthHelper.__init__, auth.py lines 11-13, and the locals of the latest
\* send_to_wmt_api call: whether is_authenticated() held, the payload's
\* file_id, the responses received and the requests sent
InitHelper ==
    [token |-> NoneVal, header |-> NoneVal,
     op |-> "idle", authed |-> FALSE, payload_id |-> NoneVal,
     file_id |-> NoneVal, existing_record |-> FALSE,
     check_resp |-> NoResp, write_resp |-> NoResp,
     requests |-> <<>>, ret |-> "unset", login_ret |-> "unset"]

\* no helper used, nothing stored, nothing sent
InitServices ==
    /\ helper = [r \in Runs |-> InitHelper]
    /\ records = [i \in RecordIds |-> 0]
    /\ objects = {}
    /\ calls = [r \in Runs |-> <<>>]
    /\ external = 0
    /\ client = [r \in Runs |-> 0]

\* no function applied on its own
NoProbe == [fn |-> "none", stage |-> 0]

InitState ==
    /\ run = [r \in Runs |-> InitRun]
    /\ InitServices
    /\ probe = NoProbe

Scenario(active, clients, protocol, record_api) ==
    [active |-> active, clients |-> clients, protocol |-> protocol,
     record_api |-> record_api]

\* LOGIN_URL, LOGIN_EMAIL and LOGIN_PASSWORD are all non-empty (auth.py
\* lines 306-308; they are read from the environment)
LOGIN_CONFIGURED == env.record_api
\* TRANSACTION_URL is non-empty (auth.py line 309)
TRANSACTION_URL_SET == env.record_api

\* one handler invocation, every failure of every service possible
Init == InitState /\ env = Scenario({1}, {}, "any", TRUE)

Call(op, target) == [op |-> op, target |-> target]

(***************************************************************************)
(* AuthHelper (auth.py).                                                   *)
(***************************************************************************)
\* auth.py line 82
is_authenticated(h) == h.token # NoneVal

\* Responses of the login service.  kind "neterr" is a RequestException;
\* a 200 body is "notjson" or a JSON object: isSuccess, whether data.tokens
\* is a non-empty object, data.tokens.accessToken and accessToken (NoneVal
\* when the key is absent).
LoginBody(json, isSuccess, tokens, nested, flat) ==
    [json |-> json, isSuccess |-> isSuccess, tokens |-> tokens,
     nested |-> nested, flat |-> flat]

\* the login service issues a new token at every login: n is the number
\* of calls made on the helper before
IssuedToken(n) == IF n = 0 THEN Token1 ELSE Token2

LoginBodies(n) ==
    { LoginBody(TRUE, TRUE, TRUE, IssuedToken(n), NoneVal),
      LoginBody(TRUE, FALSE, FALSE, NoneVal, IssuedToken(n)),
      LoginBody(TRUE, TRUE, TRUE, NoneVal, IssuedToken(n)),
      LoginBody(TRUE, TRUE, FALSE, NoneVal, NoneVal),
      LoginBody(TRUE, TRUE, TRUE, EmptyStr, NoneVal),
      LoginBody(TRUE, FALSE, FALSE, NoneVal, EmptyStr),
      LoginBody(FALSE, FALSE, FALSE, NoneVal, NoneVal) }

LoginResponses(n) ==
    {[kind |-> "neterr", status |-> 0, body |-> LoginBody(FALSE, FALSE, FALSE, NoneVal, NoneVal)]}
    \cup {[kind |-> "http", status |-> s, body |-> LoginBody(FALSE, FALSE, FALSE, NoneVal, NoneVal)] :
            s \in {401, 500}}
    \cup {[kind |-> "http", status |-> 200, body |-> b] : b \in LoginBodies(n)}

\* auth.py lines 37-41: the token a 200 response yields
ExtractToken(body) ==
    IF body.isSuccess /\ body.tokens THEN body.nested ELSE body.flat

\* variant: the handlers of lines 60-65 are missing, and what the request
\* and response.json() raise reaches the caller
loginUncaught(h, resp) ==
    IF resp.kind = "neterr" THEN [h EXCEPT !.login_ret = "raised"]
    ELSE IF resp.status # 200 THEN [h EXCEPT !.login_ret = "False"]
    ELSE IF ~resp.body.json THEN [h EXCEPT !.login_ret = "raised"]
    ELSE LET token == ExtractToken(resp.body)
         IN  IF Truthy(token)
             THEN [h EXCEPT !.token = token, !.header = token, !.login_ret = "True"]
             ELSE [h EXCEPT !.token = token, !.login_ret = "False"]

\* auth.py lines 22-65: the helper after login() got response resp
login(h, resp) ==
    IF resp.kind = "neterr" \/ resp.status # 200 \/ ~resp.body.json
    THEN [h EXCEPT !.login_ret = "False"]
    ELSE LET token == ExtractToken(resp.body)
         IN  IF Truthy(token)
             THEN [h EXCEPT !.token = token, !.header = token, !.login_ret = "True"]
             ELSE [h EXCEPT !.token = token, !.login_ret = "False"]

\* variant: the authentication check is missing
BeginSendNoAuthCheck(h, payload_id) ==
    LET h0 == [h EXCEPT !.authed = is_authenticated(h), !.payload_id = payload_id,
                        !.file_id = NoneVal, !.existing_record = FALSE,
                        !.check_resp = NoResp, !.write_resp = NoResp,
                        !.requests = <<>>, !.ret = "unset"]
    IN  IF ~Truthy(payload_id) THEN [h0 EXCEPT !.ret = "False"]
        ELSE [h0 EXCEPT !.file_id = payload_id, !.op = "check"]

\* auth.py lines 94-102: send_to_wmt_api up to the existence check.
\* payload_id is wmt_payload.get('file_id'), NoneVal when the key is absent.
BeginSend(h, payload_id) ==
    LET h0 == [h EXCEPT !.authed = is_authenticated(h), !.payload_id = payload_id,
                        !.file_id = NoneVal, !.existing_record = FALSE,
                        !.check_resp = NoResp, !.write_resp = NoResp,
                        !.requests = <<>>, !.ret = "unset"]
    IN  IF ~is_authenticated(h) THEN [h0 EXCEPT !.ret = "False"]
        ELSE IF ~Truthy(payload_id) THEN [h0 EXCEPT !.ret = "False"]
        ELSE [h0 EXCEPT !.file_id = payload_id, !.op = "check"]

\* GET /Transaction/{id}: 200 only for a record that is there, 404 only for
\* one that is not; any other answer at any time
GetResponses(id) ==
    {Resp("status", s, FALSE) : s \in (IF records[id] > 0 THEN {200} ELSE {404})
                                       \cup {204, 500}}
    \cup {Resp("timeout", 0, FALSE), Resp("connerr", 0, FALSE)}

\* POST /Transaction: the store creates the record (2xx) or refuses; on a
\* timeout the record may or may not have been created
PostResponses(id) ==
    {Resp("status", s, TRUE) : s \in {200, 201, 204}}
    \cup {Resp("status", 500, FALSE)}
    \cup {Resp("timeout", 0, b) : b \in BOOLEAN}
    \cup {Resp("connerr", 0, FALSE)}

\* PUT /Transaction/{id}: the store replaces a record that is there
PutResponses(id) ==
    (IF records[id] > 0
     THEN {Resp("status", s, TRUE) : s \in {200, 201, 204}}
     ELSE {Resp("status", 404, FALSE)})
    \cup {Resp("status", 500, FALSE)}
    \cup {Resp("timeout", 0, FALSE), Resp("connerr", 0, FALSE)}

\* variant: every 2xx status counts as found
check_record_exists_2xx(resp) ==
    resp.kind = "status" /\ resp.status \in 200..299

\* variant: everything but a 404 counts as found
check_record_exists_not404(resp) ==
    resp.kind = "status" /\ resp.status # 404

\* auth.py lines 142-157: what check_record_exists returns
check_record_exists(resp) ==
    IF resp.kind # "status" THEN FALSE
    ELSE IF resp.status = 200 THEN TRUE
    ELSE IF resp.status = 404 THEN FALSE
    ELSE FALSE

\* variant: the status of the response is not looked at
create_wmt_record_any_status(resp) == resp.kind = "status"

\* auth.py lines 176-188: what create_wmt_record returns
create_wmt_record(resp) ==
    IF resp.kind # "status" THEN FALSE ELSE resp.status \in {200, 201}

\* variant: the success codes of create, copied to update
update_wmt_record_201(resp) ==
    IF resp.kind # "status" THEN FALSE ELSE resp.status \in {200, 201}

\* auth.py lines 211-223: what update_wmt_record returns
update_wmt_record(resp) ==
    IF resp.kind # "status" THEN FALSE ELSE resp.status \in {200, 204}

\* variant: always create
RouteOfAlwaysCreate(existing_record) == "POST"

\* auth.py lines 107-114: the write send_to_wmt_api routes to
RouteOf(existing_record) == IF existing_record THEN "PUT" ELSE "POST"

\* variant: the request is not sent through self.session, and carries no
\* Authorization header
RequestNoSession(h, method, id) == [op |-> method, target |-> id, auth |-> NoneVal]

\* a request through self.session carries the session's Authorization header
Request(h, method, id) == [op |-> method, target |-> id, auth |-> h.header]

\* auth.py lines 105, 133-157: the existence check of send_to_wmt_api
CheckRecord(r) ==
    /\ helper[r].op = "check"
    /\ \E resp \in GetResponses(helper[r].file_id) :
          helper' = [helper EXCEPT ![r] =
              [@ EXCEPT !.existing_record = check_record_exists(resp),
                        !.check_resp = resp,
                        !.requests = Append(@, Request(helper[r], "GET", helper[r].file_id)),
                        !.op = "write"]]
    /\ UNCHANGED <<run, records, objects, calls, external, client, env, probe>>

\* variant: a write that timed out is sent again
WriteRecordRetry(r) ==
    /\ helper[r].op = "write"
    /\ LET h == helper[r]
           method == RouteOf(h.existing_record)
       IN  \E resp \in (IF method = "PUT" THEN PutResponses(h.file_id)
                                          ELSE PostResponses(h.file_id)) :
              /\ helper' = [helper EXCEPT ![r] =
                    [@ EXCEPT !.requests = Append(@, Request(h,  method,
                                  IF method = "PUT" THEN h.file_id ELSE h.payload_id)),
                              !.write_resp = resp,
                              !.ret = IF resp.kind = "timeout" THEN "unset"
                                      ELSE PyBool(IF method = "PUT"
                                                  THEN update_wmt_record(resp)
                                                  ELSE create_wmt_record(resp)),
                              !.op = IF resp.kind = "timeout" THEN "write" ELSE "idle"]]
              /\ records' = IF method = "POST" /\ resp.applied
                            THEN [records EXCEPT ![h.file_id] = @ + 1]
                            ELSE records
    /\ UNCHANGED <<run, objects, calls, external, client, env, probe>>

\* variant: the write is routed by what the store holds when it is sent
WriteRecordRecheck(r) ==
    /\ helper[r].op = "write"
    /\ LET h == helper[r]
           method == IF records[h.file_id] > 0 THEN "PUT" ELSE "POST"
       IN  \E resp \in (IF method = "PUT" THEN PutResponses(h.file_id)
                                          ELSE PostResponses(h.file_id)) :
              /\ helper' = [helper EXCEPT ![r] =
                    [@ EXCEPT !.requests = Append(@, Request(h,  method,
                                  IF method = "PUT" THEN h.file_id ELSE h.payload_id)),
                              !.write_resp = resp,
                              !.ret = PyBool(IF method = "PUT"
                                                 THEN update_wmt_record(resp)
                                                 ELSE create_wmt_record(resp)),
                              !.op = "idle"]]
              /\ records' = IF method = "POST" /\ resp.applied
                            THEN [records EXCEPT ![h.file_id] = @ + 1]
                            ELSE records
    /\ UNCHANGED <<run, objects, calls, external, client, env, probe>>

\* auth.py lines 107-114, 159-223: the create or the update, and the return
WriteRecord(r) ==
    /\ helper[r].op = "write"
    /\ LET h == helper[r]
           method == RouteOf(h.existing_record)
       IN  \E resp \in (IF method = "PUT" THEN PutResponses(h.file_id)
                                          ELSE PostResponses(h.file_id)) :
              /\ helper' = [helper EXCEPT ![r] =
                    [@ EXCEPT !.requests = Append(@, Request(h,  method,
                                  IF method = "PUT" THEN h.file_id ELSE h.payload_id)),
                              !.write_resp = resp,
                              !.ret = PyBool(IF method = "PUT"
                                                 THEN update_wmt_record(resp)
                                                 ELSE create_wmt_record(resp)),
                              !.op = "idle"]]
              /\ records' = IF method = "POST" /\ resp.applied
                            THEN [records EXCEPT ![h.file_id] = @ + 1]
                            ELSE records
    /\ UNCHANGED <<run, objects, calls, external, client, env, probe>>

\* another actor creates a record in the record store
ExternalCreate ==
    /\ external < MaxExternal
    /\ \E id \in RecordIds :
          records' = [records EXCEPT ![id] = @ + 1]
    /\ external' = external + 1
    /\ UNCHANGED <<run, helper, objects, calls, client, env, probe>>


(***************************************************************************)
(* storageQueueTrigger and process_pdf_classification (function_app.py).   *)
(***************************************************************************)
\* the handler ends: it returns to the trigger or raises to it
End(rn, result, outcome) ==
    [rn EXCEPT !.pc = "done", !.result = result, !.outcome = outcome]

\* lines 120-191: the message e is parsed and filtered.  subject_identity is
\* <<container_name, blob_name>> after line 157, container_name and
\* blob_name their values after line 167.
Handle(rn0, e) ==
    LET decision == Normalize(e)
        ident == ExtractIdentity(e)
        rn == [rn0 EXCEPT !.evt = e, !.decision = decision]
        extracted == [rn EXCEPT !.subject_identity = SubjectIdentity(e.subject),
                                !.container_name = ident[1],
                                !.blob_name = ident[2]]
    IN  IF decision = "raise" THEN End(rn, "none", "raised")
        ELSE IF decision \in {"invalid", "skip"}
             THEN End(IF e.type = BlobCreated /\ e.dataTruthy THEN extracted ELSE rn,
                      "none", "returned")
        ELSE [extracted EXCEPT !.file_name = FileNameOf(ident[2]),
                               !.pc = "download"]

\* a message arrives for invocation r
Receive(r) ==
    /\ r \in env.active
    /\ run[r].pc = "idle"
    /\ \E e \in Events : run' = [run EXCEPT ![r] = Handle(@, e)]
    /\ UNCHANGED <<helper, records, objects, calls, external, client, env, probe>>

\* the object store notifies the creation of an object a run wrote: another
\* invocation receives it.  (It is delivered once the writing run is over;
\* the two invocations share no state, so an earlier delivery adds nothing.)
ReceiveOwnOutput(r) ==
    /\ env.protocol = "echo" /\ r \notin env.active
    /\ \A a \in env.active : run[a].pc = "done"
    /\ run[r].pc = "idle"
    /\ \E o \in objects : run' = [run EXCEPT ![r] = Handle(@, EventFor(o))]
    /\ UNCHANGED <<helper, records, objects, calls, external, client, env, probe>>

\* what download_blob_content_with_metadata (lines 245-265) can give: no
\* blob, an error or a timeout of the object store (both caught at line
\* 263), empty content, or content with the blob's file_id metadata value
\* ('' when the blob carries none)
DownloadResults ==
    {[kind |-> k, file_id |-> <<>>] : k \in {"missing", "error", "timeout", "empty"}}
    \cup {[kind |-> "ok", file_id |-> f] : f \in {<<>>, FileId1}}

\* variant: the notification's id is preferred
ResolveFileIdEventFirst(blob_file_id, event_id) ==
    IF event_id # <<>> THEN event_id ELSE blob_file_id

\* lines 200-206: the record id of the run
ResolveFileId(blob_file_id, event_id) ==
    IF blob_file_id # <<>> THEN blob_file_id ELSE event_id

\* variant: a failed download is raised to the trigger
DownloadFailureRaises(r) ==
    /\ run[r].pc = "download"
    /\ \E d \in DownloadResults :
          run' = [run EXCEPT ![r] =
              IF d.kind = "timeout"
              THEN End([@ EXCEPT !.timed_out = "download"], "failed", "raised")
              ELSE IF d.kind # "ok" THEN End(@, "failed", "raised")
              ELSE [@ EXCEPT !.downloaded = TRUE, !.blob_file_id = d.file_id,
                             !.file_id = ResolveFileId(d.file_id, run[r].evt.id),
                             !.pc = "login"]]
    /\ calls' = [calls EXCEPT ![r] =
                    Append(@, Call("DOWNLOAD", <<run[r].container_name, run[r].blob_name>>))]
    /\ UNCHANGED <<helper, records, objects, external, client, env, probe>>

\* lines 193-206
Download(r) ==
    /\ run[r].pc = "download"
    /\ \E d \in DownloadResults :
          run' = [run EXCEPT ![r] =
              IF d.kind = "timeout"
              THEN End([@ EXCEPT !.timed_out = "download"], "none", "returned")
              ELSE IF d.kind # "ok" THEN End(@, "none", "returned")
              ELSE [@ EXCEPT !.downloaded = TRUE, !.blob_file_id = d.file_id,
                             !.file_id = ResolveFileId(d.file_id, run[r].evt.id),
                             !.pc = "login"]]
    /\ calls' = [calls EXCEPT ![r] =
                    Append(@, Call("DOWNLOAD", <<run[r].container_name, run[r].blob_name>>))]
    /\ UNCHANGED <<helper, records, objects, external, client, env, probe>>

\* lines 276-283: a fresh AuthHelper logs in; a failure is only logged
Login(r) ==
    /\ run[r].pc = "login"
    /\ IF LOGIN_CONFIGURED
       THEN \E resp \in LoginResponses(0) :
              /\ helper' = [helper EXCEPT ![r] = login(InitHelper, resp)]
              /\ run' = [run EXCEPT ![r] =
                    [@ EXCEPT !.login_success = login(InitHelper, resp).login_ret,
                              !.pc = "classify"]]
              /\ calls' = [calls EXCEPT ![r] = Append(@, Call("LOGIN", <<>>))]
       ELSE /\ helper' = [helper EXCEPT ![r] = InitHelper]
            /\ run' = [run EXCEPT ![r].pc = "classify"]
            /\ calls' = calls
    /\ UNCHANGED <<records, objects, external, client, env, probe>>

\* what the classification call gives (lines 381-431): NoResult for every
\* failure, else the result record; classification is NoneVal when the
\* record has no such key.  "apitimeout" is the timeout of the HTTP call
\* (lines 426-428), "timeout" the 900 s limit of wait_for (lines 214-219)
\* expiring while the call is awaited.
ClassifyResults ==
    {[kind |-> k, result |-> NoResult] : k \in {"timeout", "apitimeout", "done"}}
    \cup {[kind |-> "done", result |-> [present |-> TRUE, classification |-> c]] :
            c \in {CatInvoice, CatSlash, NoneVal}}

\* variant: a classification call that timed out is sent again
ClassifyRetryOnTimeout(r) ==
    /\ run[r].pc = "classify"
    /\ \E c \in ClassifyResults :
          run' = [run EXCEPT ![r] =
              IF c.kind = "timeout"
              THEN End([@ EXCEPT !.timed_out = "run"], "timeout", "raised")
              ELSE IF c.kind = "apitimeout"
              THEN [@ EXCEPT !.timed_out = "classify"]
              ELSE IF ~c.result.present THEN End(@, "failed", "raised")
              ELSE [@ EXCEPT !.classification_result = c.result, !.pc = "upload"]]
    /\ calls' = [calls EXCEPT ![r] = Append(@, Call("CLASSIFY", run[r].file_name))]
    /\ UNCHANGED <<helper, records, objects, external, client, env, probe>>

\* lines 285-288, and lines 221-232 for a failed run
Classify(r) ==
    /\ run[r].pc = "classify"
    /\ \E c \in ClassifyResults :
          run' = [run EXCEPT ![r] =
              IF c.kind = "timeout"
              THEN End([@ EXCEPT !.timed_out = "run"], "timeout", "raised")
              ELSE IF c.kind = "apitimeout"
              THEN End([@ EXCEPT !.timed_out = "classify"], "failed", "raised")
              ELSE IF ~c.result.present THEN End(@, "failed", "raised")
              ELSE [@ EXCEPT !.classification_result = c.result, !.pc = "upload"]]
    /\ calls' = [calls EXCEPT ![r] = Append(@, Call("CLASSIFY", run[r].file_name))]
    /\ UNCHANGED <<helper, records, objects, external, client, env, probe>>

\* classification_result.get('classification', 'unknown')
ClassificationOf(result) ==
    IF result.classification = NoneVal
    THEN <<"u","n","k","n","o","w","n">> ELSE result.classification

\* variant: the marker and the category are put after the whole file name
ClassifiedFilenameAppended(original_file_name, classification) ==
    original_file_name
    \o <<"_","c","l","a","s","s","i","f","i","e","d","_">>
    \o classification

\* lines 502-505
ClassifiedFilename(original_file_name, classification) ==
    SplitExt(original_file_name)[1]
    \o <<"_","c","l","a","s","s","i","f","i","e","d","_">>
    \o classification \o SplitExt(original_file_name)[2]

\* lines 581-582
JsonFilename(original_file_name) ==
    SplitExt(original_file_name)[1]
    \o <<"_","c","l","a","s","s","i","f","i","c","a","t","i","o","n","_",
         "r","e","s","u","l","t",".","j","s","o","n">>

\* what a write to the object store gives: done, or an error or a timeout
\* raised by the client (caught at lines 574-576 and 685-687)
WriteResults == {"ok", "error", "timeout"}

\* variant: the report is written whether or not the upload succeeded
UploadContinueOnFailure(r) ==
    /\ run[r].pc = "upload"
    /\ LET blob == <<CLASSIFICATION_CONTAINER,
                     ClassifiedFilename(run[r].file_name,
                         ClassificationOf(run[r].classification_result))>>
       IN  /\ calls' = [calls EXCEPT ![r] = Append(@, Call("UPLOAD", blob))]
           /\ \E res \in WriteResults :
                 /\ run' = [run EXCEPT ![r] =
                       [@ EXCEPT !.upload_ok = (res = "ok"), !.pc = "report"]]
                 /\ objects' = IF res = "ok" THEN objects \cup {blob} ELSE objects
    /\ UNCHANGED <<helper, records, external, client, env, probe>>

\* lines 291-294 (upload_classified_pdf, lines 499-576)
Upload(r) ==
    /\ run[r].pc = "upload"
    /\ LET blob == <<CLASSIFICATION_CONTAINER,
                     ClassifiedFilename(run[r].file_name,
                         ClassificationOf(run[r].classification_result))>>
       IN  /\ calls' = [calls EXCEPT ![r] = Append(@, Call("UPLOAD", blob))]
           /\ \E res \in WriteResults :
                 /\ run' = [run EXCEPT ![r] =
                       IF res = "ok" THEN [@ EXCEPT !.upload_ok = TRUE, !.pc = "report"]
                       ELSE IF res = "timeout"
                       THEN End([@ EXCEPT !.timed_out = "upload"], "failed", "raised")
                       ELSE End(@, "failed", "raised")]
                 /\ objects' = IF res = "ok" THEN objects \cup {blob} ELSE objects
    /\ UNCHANGED <<helper, records, external, client, env, probe>>

\* variant: a report that could not be written does not end the run
SaveJsonIgnoreFailure(r) ==
    /\ run[r].pc = "report"
    /\ LET blob == <<RESULTS_CONTAINER, JsonFilename(run[r].file_name)>>
       IN  /\ calls' = [calls EXCEPT ![r] = Append(@, Call("UPLOAD", blob))]
           /\ \E res \in WriteResults :
                 /\ run' = [run EXCEPT ![r] =
                       [@ EXCEPT !.json_ok = (res = "ok"), !.pc = "metadata"]]
                 /\ objects' = IF res = "ok" THEN objects \cup {blob} ELSE objects
    /\ UNCHANGED <<helper, records, external, client, env, probe>>

\* lines 297-300 (save_classification_json, lines 578-687)
SaveJson(r) ==
    /\ run[r].pc = "report"
    /\ LET blob == <<RESULTS_CONTAINER, JsonFilename(run[r].file_name)>>
       IN  /\ calls' = [calls EXCEPT ![r] = Append(@, Call("UPLOAD", blob))]
           /\ \E res \in WriteResults :
                 /\ run' = [run EXCEPT ![r] =
                       IF res = "ok" THEN [@ EXCEPT !.json_ok = TRUE, !.pc = "metadata"]
                       ELSE IF res = "timeout"
                       THEN End([@ EXCEPT !.timed_out = "report"], "failed", "raised")
                       ELSE End(@, "failed", "raised")]
                 /\ objects' = IF res = "ok" THEN objects \cup {blob} ELSE objects
    /\ UNCHANGED <<helper, records, external, client, env, probe>>

\* what fetch_and_update_metadata_json (lines 689-818) meets: the file
\* <file_id>.json is missing, does not parse, or parses to an object whose
\* 'file_id' is json_file_id (NoneVal when it has none); then the two
\* writes succeed or fail; "timeout" is the object store not answering
\* the first request (caught at lines 816-818)
MetadataResults(file_id) ==
    {[kind |-> k, json_file_id |-> NoneVal] : k \in {"missing", "badjson", "timeout"}}
    \cup {[kind |-> k, json_file_id |-> j] :
            k \in {"write1fail", "write2fail", "ok"},
            j \in {file_id, OtherId, NoneVal}}

MetadataBlob(file_id) == <<METADATA_CONTAINER, file_id \o <<".","j","s","o","n">>>>

BackupBlob(file_id) ==
    <<RESULTS_CONTAINER,
      file_id \o <<"_","u","p","d","a","t","e","d","_","m","e","t","a","d","a","t","a",
                   ".","j","s","o","n">>>>

\* lines 303-311
UpdateMetadata(r) ==
    /\ run[r].pc = "metadata"
    /\ LET file_id == run[r].file_id
       IN  IF file_id = <<>>
           THEN /\ run' = [run EXCEPT ![r].pc = "dispatch"]
                /\ UNCHANGED <<calls, objects>>
           ELSE \E m \in MetadataResults(file_id) :
                  /\ run' = [run EXCEPT ![r] =
                        [@ EXCEPT !.metadata_ok = (m.kind = "ok"),
                                  !.json_file_id = IF m.kind = "ok" THEN m.json_file_id
                                                                    ELSE NoneVal,
                                  !.timed_out = IF m.kind = "timeout" THEN "metadata"
                                                                      ELSE @,
                                  !.pc = "dispatch"]]
                  /\ calls' = [calls EXCEPT ![r] =
                        @ \o <<Call("EXISTS", MetadataBlob(file_id))>>
                          \o (IF m.kind \notin {"missing", "timeout"}
                              THEN <<Call("DOWNLOAD", MetadataBlob(file_id))>> ELSE <<>>)
                          \o (IF m.kind \in {"write1fail", "write2fail", "ok"}
                              THEN <<Call("UPLOAD", MetadataBlob(file_id))>> ELSE <<>>)
                          \o (IF m.kind \in {"write2fail", "ok"}
                              THEN <<Call("UPLOAD", BackupBlob(file_id))>> ELSE <<>>)]
                  /\ objects' = objects
                        \cup (IF m.kind \in {"write2fail", "ok"}
                              THEN {MetadataBlob(file_id)} ELSE {})
                        \cup (IF m.kind = "ok" THEN {BackupBlob(file_id)} ELSE {})
    /\ UNCHANGED <<helper, records, external, client, env, probe>>

\* variant: the fallback payload is given the id of the notification
PayloadFileIdOfEvent(rn) ==
    IF rn.metadata_ok THEN rn.json_file_id ELSE rn.evt.id

\* lines 318-350: the 'file_id' of the payload handed to send_to_wmt_api
PayloadFileId(rn) ==
    IF rn.metadata_ok THEN rn.json_file_id ELSE rn.file_id

\* lines 313-358: the upsert is dispatched, or skipped
Dispatch(r) ==
    /\ run[r].pc = "dispatch"
    /\ IF run[r].file_id # <<>> /\ TRANSACTION_URL_SET
       THEN LET rn == [run[r] EXCEPT
                          !.payload_source = IF run[r].metadata_ok THEN "metadata"
                                                                   ELSE "fallback",
                          !.payload_file_id = PayloadFileId(run[r]),
                          !.pc = "return"]
            IN  IF is_authenticated(helper[r])
                THEN /\ run' = [run EXCEPT ![r] = [rn EXCEPT !.wmt_called = TRUE]]
                     /\ helper' = [helper EXCEPT ![r] =
                                      BeginSend(@, PayloadFileId(run[r]))]
                ELSE /\ run' = [run EXCEPT ![r] = rn]
                     /\ helper' = helper
       ELSE /\ run' = [run EXCEPT ![r].pc = "return"]
            /\ helper' = helper
    /\ UNCHANGED <<records, objects, calls, external, client, env, probe>>

\* variant: a failed upsert fails the run, and the handler raises
FinishFailOnUpsert(r) ==
    /\ run[r].pc = "return"
    /\ helper[r].op = "idle"
    /\ run' = [run EXCEPT ![r] =
          IF run[r].wmt_called /\ helper[r].ret = "False"
          THEN End(@, "failed", "raised")
          ELSE End(@, "success", "returned")]
    /\ UNCHANGED <<helper, records, objects, calls, external, client, env, probe>>

\* lines 355-375 and 221-222: the run reports success, whatever the upsert
\* returned, and the handler returns
Finish(r) ==
    /\ run[r].pc = "return"
    /\ helper[r].op = "idle"
    /\ run' = [run EXCEPT ![r] = End(@, "success", "returned")]
    /\ UNCHANGED <<helper, records, objects, calls, external, client, env, probe>>

Next ==
    \/ \E r \in Runs :
          \/ Receive(r) \/ Download(r) \/ Login(r) \/ Classify(r) \/ Upload(r)
          \/ SaveJson(r) \/ UpdateMetadata(r) \/ Dispatch(r) \/ Finish(r)
          \/ CheckRecord(r) \/ WriteRecord(r)
    \/ ExternalCreate

Spec == Init /\ [][Next]_vars

\* The normalizer on its own: a creation notification with a generated
\* subject waits in the queue, and the handler takes it.
SubjectSegments ==
    { <<>>, <<"c","o","n","t","a","i","n","e","r","s">>, <<"b","l","o","b","s">>,
      INPUT_CONTAINER, <<"f",".","p","d","f">> }

ExampleSubject == <<"/","b","l","o","b","S","e","r","v","i","c","e","s","/","d","e","f","a","u","l","t","/","c","o","n","t","a","i","n","e","r","s","/","s","t","a","m","p","e","d","s","t","o","r","a","g","e","/","b","l","o","b","s","/","f","o","l","d","e","r","/","f","i","l","e",".","p","d","f">>

GenSubjects ==
    { Join(p, "/") : p \in UNION { [1..n -> SubjectSegments] : n \in 1..MaxSegments } }
    \cup { ExampleSubject, SubjInvoice, SubjFolderMarker, SubjNotes, SubjOther }

\* an absolute URL with a key of two segments, and one that stops at the
\* container
UrlFolder == UrlPrefix \o INPUT_CONTAINER \o <<"/","f","o","l","d","e","r","/","f","i","l","e",".","p","d","f">>
UrlShort == UrlPrefix \o INPUT_CONTAINER

\* the <<url, blobUrl>> fields of the generated notifications
GenUrls ==
    { << <<>>, <<>> >>, << UrlInvoice, <<>> >>, << UrlShort, <<>> >>,
      << <<>>, UrlFolder >> }

GenEvents ==
    { Event(TRUE, EventId1, BlobCreated, subject, TRUE, u[1], u[2]) :
        subject \in GenSubjects, u \in GenUrls }

\* the handler is invoked with the queued message (line 117)
ReceiveQueued(r) ==
    /\ run[r].pc = "queued"
    /\ run' = [run EXCEPT ![r] = Handle([@ EXCEPT !.pc = "idle"], run[r].evt)]
    /\ UNCHANGED <<helper, records, objects, calls, external, client, env, probe>>

NextNormalize == \E r \in Runs : ReceiveQueued(r)

InitNormalize ==
    /\ \E e \in GenEvents :
          run = [r \in Runs |-> IF r = 1 THEN [InitRun EXCEPT !.pc = "queued", !.evt = e]
                                         ELSE InitRun]
    /\ InitServices
    /\ probe = NoProbe
    /\ env = Scenario({}, {}, "normalize", TRUE)

SpecNormalize == InitNormalize /\ [][NextNormalize]_vars

\* The storage side of the pipeline on its own: a deployment in which the
\* login and the record API are not configured (the objects a run writes do
\* not depend on them), and the notifications of the written objects come
\* back to the handler.
NextEcho ==
    \E r \in Runs :
        \/ Receive(r) \/ ReceiveOwnOutput(r) \/ Download(r) \/ Login(r)
        \/ Classify(r) \/ Upload(r) \/ SaveJson(r) \/ UpdateMetadata(r)
        \/ Dispatch(r) \/ Finish(r)

InitEcho == InitState /\ env = Scenario({1}, {}, "echo", FALSE)

SpecEcho == InitEcho /\ [][NextEcho]_vars


(***************************************************************************)
(* The AuthHelper on its own: a client calls login and send_to_wmt_api on  *)
(* the helpers of env.clients, which share the record store.               *)
(***************************************************************************)
\* Two invocations of the handler at once, each with its own message, over
\* one object store (the login and the record API are not configured).
EventId2 == <<"E","2">>
SubjArchive == <<"/","b","l","o","b","S","e","r","v","i","c","e","s","/","d","e","f","a","u","l","t","/","c","o","n","t","a","i","n","e","r","s","/","s","t","a","m","p","e","d","s","t","o","r","a","g","e","/","b","l","o","b","s","/","a","r","c","h","i","v","e","/","i","n","v","o","i","c","e",".","p","d","f">>

\* the notification invocation r receives: two objects of the input
\* container, 'invoice.pdf' and 'archive/invoice.pdf'
PairEvent(r) ==
    IF r = 1 THEN Event(TRUE, EventId1, BlobCreated, SubjInvoice, TRUE, UrlInvoice, <<>>)
    ELSE Event(TRUE, EventId2, BlobCreated, SubjArchive, TRUE, <<>>, <<>>)

ReceivePair(r) ==
    /\ r \in env.active
    /\ run[r].pc = "idle"
    /\ run' = [run EXCEPT ![r] = Handle(@, PairEvent(r))]
    /\ UNCHANGED <<helper, records, objects, calls, external, client, env, probe>>

NextPair ==
    \E r \in Runs :
        \/ ReceivePair(r) \/ Download(r) \/ Login(r) \/ Classify(r) \/ Upload(r)
        \/ SaveJson(r) \/ UpdateMetadata(r) \/ Dispatch(r) \/ Finish(r)

InitPair == InitState /\ env = Scenario(Runs, {}, "pair", FALSE)

SpecPair == InitPair /\ [][NextPair]_vars

\* wmt_payload.get('file_id') of the payloads a client sends
PayloadIds == {NoneVal, EmptyStr, FileId1, OtherId}

\* process_pdf_classification logs in first (lines 279-280) ...
MayLogin(r) ==
    /\ r \in env.clients
    /\ helper[r].op = "idle"
    /\ IF env.protocol = "pipeline" THEN client[r] = 0 ELSE client[r] < MaxCalls

\* ... and calls send_to_wmt_api once, after that (line 354)
MaySend(r) ==
    /\ r \in env.clients
    /\ helper[r].op = "idle"
    /\ IF env.protocol = "pipeline" THEN client[r] = 1 ELSE client[r] < MaxCalls

\* a call of login(), auth.py lines 15-65
ClientLogin(r) ==
    /\ MayLogin(r)
    /\ \E resp \in LoginResponses(client[r]) :
          helper' = [helper EXCEPT ![r] = login(@, resp)]
    /\ client' = [client EXCEPT ![r] = @ + 1]
    /\ UNCHANGED <<run, records, objects, calls, external, env, probe>>

\* a call of send_to_wmt_api(wmt_payload), auth.py lines 84-102
ClientSend(r) ==
    /\ MaySend(r)
    /\ \E payload_id \in PayloadIds :
          helper' = [helper EXCEPT ![r] = BeginSend(@, payload_id)]
    /\ client' = [client EXCEPT ![r] = @ + 1]
    /\ UNCHANGED <<run, records, objects, calls, external, env, probe>>

NextAuth ==
    \/ \E r \in Runs :
          \/ ClientLogin(r) \/ ClientSend(r) \/ CheckRecord(r) \/ WriteRecord(r)
    \/ ExternalCreate

\* one helper, called in any order
InitAuth == InitState /\ env = Scenario({}, {1}, "any", TRUE)

SpecAuth == InitAuth /\ [][NextAuth]_vars

\* two helpers, each called as one pipeline run calls its own, racing on
\* the record store
InitRace == InitState /\ env = Scenario({}, Runs, "pipeline", TRUE)

SpecRace == InitRace /\ [][NextAuth]_vars

\* login() called again and again on one helper; probe keeps the response
\* of the latest call and the helper as it was before it
LoginAttempt(r) ==
    /\ MayLogin(r)
    /\ \E resp \in LoginResponses(client[r]) :
          /\ helper' = [helper EXCEPT ![r] = login(@, resp)]
          /\ probe' = [fn |-> "login", stage |-> client[r] + 1,
                       value |-> resp, before |-> helper[r]]
    /\ client' = [client EXCEPT ![r] = @ + 1]
    /\ UNCHANGED <<run, records, objects, calls, external, env>>

NextLogin == \E r \in Runs : LoginAttempt(r)

InitLogin == InitState /\ env = Scenario({}, {1}, "login", TRUE)

SpecLogin == InitLogin /\ [][NextLogin]_vars


(***************************************************************************)
(* Properties.                                                             *)
(***************************************************************************)
(***************************************************************************)
(* sanitize_metadata_value (function_app.py lines 101-114).                *)
(* A character is a one-character string; the characters that TLA+ cannot  *)
(* write are named.                                                        *)
(***************************************************************************)
Backtick == "<0x60>"

\* the characters of ordinal 32 to 126, in order
Ascii ==
    << " ", "!", "\"", "#", "$", "%", "&", "'", "(", ")", "*", "+",
       ",", "-", ".", "/", "0", "1", "2", "3", "4", "5", "6", "7",
       "8", "9", ":", ";", "<", "=", ">", "?", "@", "A", "B", "C",
       "D", "E", "F", "G", "H", "I", "J", "K", "L", "M", "N", "O",
       "P", "Q", "R", "S", "T", "U", "V", "W", "X", "Y", "Z", "[",
       "\\", "]", "^", "_", Backtick, "a", "b", "c", "d", "e", "f", "g",
       "h", "i", "j", "k", "l", "m", "n", "o", "p", "q", "r", "s",
       "t", "u", "v", "w", "x", "y", "z", "{", "|", "}", "~" >>

US == "<0x1f>"
DEL == "<0x7f>"
EAcute == "<0xe9>"
NTilde == "<0xf1>"
UUml == "<0xfc>"

\* ord(char)
Ord ==
    [c \in { Ascii[i] : i \in 1..Len(Ascii) }
           \cup {"\t", "\n", "\r", US, DEL, EAcute, NTilde, UUml} |->
        IF c = "\t" THEN 9
        ELSE IF c = "\n" THEN 10
        ELSE IF c = "\r" THEN 13
        ELSE IF c = US THEN 31
        ELSE IF c = DEL THEN 127
        ELSE IF c = EAcute THEN 233
        ELSE IF c = NTilde THEN 241
        ELSE IF c = UUml THEN 252
        ELSE 31 + (CHOOSE i \in 1..Len(Ascii) : Ascii[i] = c)]

\* variant: no upper limit on the ordinal
KeepCharNoUpperLimit(char) == Ord[char] >= 32

\* line 107: the condition of the filter
KeepChar(char) == Ord[char] >= 32 /\ Ord[char] < 127

\* line 107
FilterPrintable(s) == SelectSeq(s, KeepChar)

\* line 110: the three replace calls
ReplaceControl(s) ==
    SubSeq([i \in 1..Len(s) |-> IF s[i] \in {"\n", "\r", "\t"} THEN " " ELSE s[i]],
           1, Len(s))

\* the characters str.split() takes as separators, of those at hand
PyWhitespace == {" ", "\t", "\n", "\r", US}

\* variant: sanitized.replace('  ', ' '), one pass from the left, in which
\* every second character of a run of spaces goes
CollapseReplaceOnce(s) ==
    LET n == Len(s)
        runStart(i) == CHOOSE p \in 1..i :
                          /\ \A q \in p..i : s[q] = " "
                          /\ p = 1 \/ s[p - 1] # " "
        keep(i) == s[i] # " " \/ (i - runStart(i)) % 2 = 0
        kept == SelectSeq(SubSeq([i \in 1..n |-> i], 1, n), keep)
    IN  SubSeq([k \in 1..Len(kept) |-> s[kept[k]]], 1, Len(kept))

\* variant: the runs are collapsed and the ends are not trimmed
CollapseNoTrim(s) ==
    LET n == Len(s)
        keep(i) == s[i] \notin PyWhitespace
                   \/ i = 1 \/ s[i - 1] \notin PyWhitespace
        kept == SelectSeq(SubSeq([i \in 1..n |-> i], 1, n), keep)
        m == Len(kept)
    IN  SubSeq([k \in 1..m |-> IF s[kept[k]] \in PyWhitespace
                               THEN " " ELSE s[kept[k]]], 1, m)

\* line 111, ' '.join(sanitized.split()): the words of s (its maximal runs
\* without whitespace), each but the last followed by one space.  Of every
\* run of whitespace that follows a word the first character is kept, as a
\* space; the one after the last word is dropped.
CollapseWhitespace(s) ==
    LET n == Len(s)
        keep(i) == s[i] \notin PyWhitespace
                   \/ (i > 1 /\ s[i - 1] \notin PyWhitespace)
        kept == SelectSeq(SubSeq([i \in 1..n |-> i], 1, n), keep)
        m == Len(kept)
        joined == SubSeq([k \in 1..m |-> IF s[kept[k]] \in PyWhitespace
                                         THEN " " ELSE s[kept[k]]], 1, m)
    IN  IF m > 0 /\ joined[m] = " " THEN SubSeq(joined, 1, m - 1) ELSE joined

\* variant: the string is cut and no mark is appended
TruncateNoMark(s) ==
    IF Len(s) > 250 THEN SubSeq(s, 1, 250) ELSE s

\* lines 112-113
Truncate(s) ==
    IF Len(s) > 250 THEN SubSeq(s, 1, 247) \o <<".", ".", ".">> ELSE s

\* lines 101-114; None is NoneVal
sanitize_metadata_value(value) ==
    IF value = NoneVal \/ value = <<>> THEN <<>>
    ELSE Truncate(CollapseWhitespace(ReplaceControl(FilterPrintable(value))))

\* The arguments sanitize_metadata_value is applied to: None, every string
\* of up to MaxSanitizeLen characters of SanitizeAlphabet, the inputs of the
\* test cases (test_sanitization.py lines 8-16), and long strings, a unit
\* repeated up to a length around and beyond the limit of 250.
MaxSanitizeLen == 3
MaxExcess == 3

SanitizeAlphabet == {"a", " ", "\n", "\r", "\t", US, DEL, EAcute}

ShortInputs == UNION { [1..n -> SanitizeAlphabet] : n \in 0..MaxSanitizeLen }

TestNormal == <<"N","o","r","m","a","l"," ","t","e","x","t">>
TestNewlines == <<"T","e","x","t"," ","w","i","t","h","\n","n","e","w","l","i","n","e","s","\r","a","n","d","\t","t","a","b","s">>
TestSpecial == <<"T","e","x","t"," ","w","i","t","h"," ","s","p","e","c","i","a","l"," ","c","h","a","r","s",":"," ","!","@","#","$","%","^","&","*","(",")">>
TestUnicode == <<"T","e","x","t"," ","w","i","t","h"," ","u","n","i","c","o","d","e",":"," ",EAcute,NTilde,UUml,NTilde>>
TestSpaces == <<" "," "," ","M","u","l","t","i","p","l","e"," "," "," ","s","p","a","c","e","s"," "," "," ">>
TestControl == <<"C","o","n","t","r","o","l"," ","c","h","a","r",":"," ",US," ","t","e","s","t">>
TestLongUnit == <<"V","e","r","y"," ","l","o","n","g"," ","t","e","x","t"," ">>

TestInputs ==
    { TestNormal, TestNewlines, TestSpecial, TestUnicode, TestSpaces, TestControl }

\* unit repeated and cut to the length len
Fill(unit, len) ==
    SubSeq([i \in 1..len |-> unit[((i - 1) % Len(unit)) + 1]], 1, len)

LongUnits ==
    { <<"a">>, <<" ">>, <<EAcute>>, <<"a", " ">>, <<" ", "a">>, <<"a", " ", " ">>,
      <<"a", EAcute>>, <<"a", "\n">>, <<"a", "\t", " ">>, <<"a", ".">>,
      <<".", " ">>, TestLongUnit }

LongLengths == (250 - 2)..(250 + MaxExcess) \cup {2 * 250 + 2, 50 * Len(TestLongUnit)}

LongInputs == { Fill(unit, len) : unit \in LongUnits, len \in LongLengths }

SanitizeInputs == {NoneVal} \cup ShortInputs \cup TestInputs \cup LongInputs

\* the function is applied to the argument
Sanitize ==
    /\ probe.fn = "sanitize" /\ probe.stage = 0
    /\ probe' = [probe EXCEPT !.stage = 1,
                              !.result = sanitize_metadata_value(probe.value)]
    /\ UNCHANGED <<run, helper, records, objects, calls, external, client, env>>

\* and again to what it returned
SanitizeAgain ==
    /\ probe.fn = "sanitize" /\ probe.stage = 1
    /\ probe' = [probe EXCEPT !.stage = 2,
                              !.again = sanitize_metadata_value(probe.result)]
    /\ UNCHANGED <<run, helper, records, objects, calls, external, client, env>>

NextSanitize == Sanitize \/ SanitizeAgain

InitSanitize ==
    /\ run = [r \in Runs |-> InitRun]
    /\ InitServices
    /\ env = Scenario({}, {}, "sanitize", FALSE)
    /\ \E v \in SanitizeInputs :
          probe = [fn |-> "sanitize", stage |-> 0, value |-> v,
                   result |-> <<>>, again |-> <<>>]

SpecSanitize == InitSanitize /\ [][NextSanitize]_vars

(***************************************************************************)
(* handle_classification_response_direct (function_app.py lines 433-497).  *)
(* A JSON value is a record with its type t.  An element of a list is an   *)
(* object with or without 'Predicted Category' (category, NoneVal without) *)
(* and 'Evaluation Verdict' (verdict: "absent", "text" or a non-zero       *)
(* "number"), or a string.  The value under 'json' is absent, null, an     *)
(* object or an array of items.  'classification_result' is absent, null,  *)
(* a number, or an object with or without 'json'.  A response is an object *)
(* with or without these keys, 'classification' (NoneVal without) and      *)
(* other keys, or a number.                                                *)
(***************************************************************************)
MaxItems == 1

Categories == {NoneVal, CatInvoice, CatSlash}

Elements ==
    { [t |-> "object", category |-> c, verdict |-> v] :
        c \in Categories, v \in {"absent", "text", "number"} }
    \cup { [t |-> "string", category |-> NoneVal, verdict |-> "absent"] }

\* {}: the object without any key
EmptyElement == [t |-> "object", category |-> NoneVal, verdict |-> "absent"]

\* the lists: empty, or a first element followed by up to MaxItems - 1 others
Lists ==
    { <<>> } \cup
    { <<e>> \o [i \in 1..n |-> EmptyElement] : e \in Elements, n \in 0..(MaxItems - 1) }

JsonValues ==
    { [t |-> k, items |-> <<>>] : k \in {"absent", "null", "object"} }
    \cup { [t |-> "array", items |-> l] : l \in Lists }

AbsentValue == [t |-> "absent", items |-> <<>>]

ClassificationResults ==
    { [t |-> k, json |-> AbsentValue] : k \in {"absent", "null", "number"} }
    \cup { [t |-> "object", json |-> j] : j \in JsonValues }

\* the bodies json.loads gives that are not empty (line 408)
Responses ==
    { d \in [t : {"object"}, json : JsonValues,
             classification_result : ClassificationResults,
             classification : Categories, other : BOOLEAN] :
        \/ d.json.t # "absent" \/ d.classification_result.t # "absent"
        \/ d.classification # NoneVal \/ d.other }
    \cup { [t |-> "number", json |-> AbsentValue,
            classification_result |-> [t |-> "absent", json |-> AbsentValue],
            classification |-> NoneVal, other |-> FALSE] }

\* lines 495-497: an exception was caught, None is returned
ReturnsNone(json_data) ==
    [status |-> "none", classification |-> NoneVal, full_response |-> json_data]

\* lines 482-483 and 486-488: json_data itself is returned
Unchanged(json_data) ==
    [status |-> "unchanged", classification |-> json_data.classification,
     full_response |-> json_data]

\* lines 438-459 and 463-484: the record built from classification_data;
\* .get raises on a string, and extract_confidence_score (lines 17-37) on
\* a number other than zero
structured_result(classification_data, json_data) ==
    IF classification_data.t # "object" THEN ReturnsNone(json_data)
    ELSE IF classification_data.verdict = "number" THEN ReturnsNone(json_data)
    ELSE [status |-> "structured",
          classification |-> IF classification_data.category = NoneVal
                             THEN <<"u","n","k","n","o","w","n">>
                             ELSE classification_data.category,
          full_response |-> json_data]

\* variant: the simple format is looked for first
handle_classification_response_flat_first(json_data) ==
    IF json_data.t # "object" THEN ReturnsNone(json_data)
    ELSE IF json_data.classification # NoneVal THEN Unchanged(json_data)
    ELSE IF json_data.json.t = "array" /\ Len(json_data.json.items) > 0
    THEN structured_result(json_data.json.items[1], json_data)
    ELSE IF json_data.classification_result.t \in {"null", "number"}
    THEN ReturnsNone(json_data)
    ELSE IF /\ json_data.classification_result.t = "object"
            /\ json_data.classification_result.json.t # "absent"
    THEN LET nested == json_data.classification_result.json
         IN  IF nested.t = "object" THEN ReturnsNone(json_data)
             ELSE IF nested.t = "array" /\ Len(nested.items) > 0
             THEN structured_result(nested.items[1], json_data)
             ELSE structured_result(EmptyElement, json_data)
    ELSE Unchanged(json_data)

\* lines 433-497.  "'json' in json_data" raises on a number, as does
\* "'json' in json_data['classification_result']" on null and on a number;
\* a non-empty object under the nested 'json' has no element 0.
handle_classification_response_direct(json_data) ==
    IF json_data.t # "object" THEN ReturnsNone(json_data)
    ELSE IF json_data.json.t = "array" /\ Len(json_data.json.items) > 0
    THEN structured_result(json_data.json.items[1], json_data)
    ELSE IF json_data.classification_result.t \in {"null", "number"}
    THEN ReturnsNone(json_data)
    ELSE IF /\ json_data.classification_result.t = "object"
            /\ json_data.classification_result.json.t # "absent"
    THEN LET nested == json_data.classification_result.json
         IN  IF nested.t = "object" THEN ReturnsNone(json_data)
             ELSE IF nested.t = "array" /\ Len(nested.items) > 0
             THEN structured_result(nested.items[1], json_data)
             ELSE structured_result(EmptyElement, json_data)
    ELSE Unchanged(json_data)

\* line 410: the handler is applied to the body
HandleResponse ==
    /\ probe.fn = "response" /\ probe.stage = 0
    /\ probe' = [probe EXCEPT !.stage = 1,
                    !.result = handle_classification_response_direct(probe.value)]
    /\ UNCHANGED <<run, helper, records, objects, calls, external, client, env>>

NextResponse == HandleResponse

InitResponse ==
    /\ run = [r \in Runs |-> InitRun]
    /\ InitServices
    /\ env = Scenario({}, {}, "response", FALSE)
    /\ \E d \in Responses :
          probe = [fn |-> "response", stage |-> 0, value |-> d,
                   result |-> ReturnsNone(d)]

SpecResponse == InitResponse /\ [][NextResponse]_vars

\* number of requests of one method among reqs
CountOp(reqs, op) == Cardinality({i \in DOMAIN reqs : reqs[i].op = op})

\* the methods of reqs, in order
Methods(reqs) == [i \in DOMAIN reqs |-> reqs[i].op]

\* a send_to_wmt_api call on h was made and has returned
SendReturned(h) == h.op = "idle" /\ h.ret # "unset"

\* a send_to_wmt_api call on h was made
SendCalled(h) == h.op # "idle" \/ h.ret # "unset"

\* the latest call was made by an authenticated helper with a payload that
\* carries a non-empty file_id
Dispatched(h) == h.authed /\ Truthy(h.payload_id)

\* C1: a send_to_wmt_api call by an authenticated helper with a non-empty
\* file_id issues exactly one PUT and no POST when check_record_exists
\* returned true, exactly one POST and no PUT when it returned false, and
\* never both a POST and a PUT.
C1_UpsertRouting ==
    \A r \in Runs :
        LET h == helper[r]
        IN  /\ ~(CountOp(h.requests, "POST") > 0 /\ CountOp(h.requests, "PUT") > 0)
            /\ (SendReturned(h) /\ Dispatched(h)) =>
                  IF h.existing_record
                  THEN CountOp(h.requests, "PUT") = 1 /\ CountOp(h.requests, "POST") = 0
                  ELSE CountOp(h.requests, "POST") = 1 /\ CountOp(h.requests, "PUT") = 0

\* a call that found the record and updated it, after one that created it
C1_Witness ==
    \E r \in Runs :
        /\ SendReturned(helper[r]) /\ Dispatched(helper[r])
        /\ helper[r].existing_record
        /\ Methods(helper[r].requests) = <<"GET", "PUT">>
        /\ external = 0

\* C2 as stated: after a dispatch for a record id the store holds exactly
\* one record with that id.
C2_ExactlyOneRecord ==
    \A r \in Runs :
        (SendReturned(helper[r]) /\ Dispatched(helper[r]))
            => records[helper[r].file_id] = 1

\* C2, amended: after a dispatch that reports success the store holds at
\* least one record with that id.
C2_SuccessLeavesRecord ==
    \A r \in Runs :
        (SendReturned(helper[r]) /\ Dispatched(helper[r]) /\ helper[r].ret = "True")
            => records[helper[r].file_id] >= 1

\* two racing dispatches for one absent id both create it and both report
\* success: the store holds two records with that id
C2_Witness ==
    /\ \A r \in Runs :
          /\ SendReturned(helper[r]) /\ Dispatched(helper[r])
          /\ helper[r].ret = "True"
          /\ helper[r].file_id = FileId1
          /\ Methods(helper[r].requests) = <<"GET", "POST">>
    /\ external = 0
    /\ records[FileId1] = 2

\* C3: every record API request of a logged-in run (the existence check
\* and the write) is made for the record id resolved for that run.
C3_RecordIdOfRun ==
    \A r \in Runs :
        run[r].login_success = "True" =>
            \A i \in DOMAIN helper[r].requests :
                helper[r].requests[i].target = run[r].file_id

\* C4 as stated: check_record_exists returns true for every 2xx status and
\* false for 404.
C4_Every2xxFound ==
    \A r \in Runs :
        LET h == helper[r]
        IN  h.check_resp.kind = "status" =>
               /\ h.check_resp.status \in 200..299 => h.existing_record
               /\ h.check_resp.status = 404 => ~h.existing_record

\* C4, amended: check_record_exists returns true for status 200, false for
\* 404, and false for every other 2xx status.
C4_Only200Found ==
    \A r \in Runs :
        LET h == helper[r]
        IN  h.check_resp.kind = "status" =>
               /\ h.check_resp.status = 200 => h.existing_record
               /\ h.check_resp.status = 404 => ~h.existing_record
               /\ h.check_resp.status \in 201..299 => ~h.existing_record

\* the existence check was answered 204 and reported the record absent
C4_Witness ==
    \E r \in Runs :
        /\ helper[r].op = "write"
        /\ helper[r].check_resp = Resp("status", 204, FALSE)
        /\ ~helper[r].existing_record

\* the existence check got no definite answer: a status other than 200 and
\* 404, a timeout or a connection error
CheckFailed(h) ==
    \/ h.check_resp.kind \in {"timeout", "connerr"}
    \/ h.check_resp.kind = "status" /\ h.check_resp.status \notin {200, 404}

\* C5: when the existence check gets no definite answer,
\* check_record_exists returns false and the call goes on to one create
\* request and no update request.
C5_CheckFailureRoutesToCreate ==
    \A r \in Runs :
        LET h == helper[r]
        IN  CheckFailed(h) =>
               /\ ~h.existing_record
               /\ h.op = "write" \/ SendReturned(h)
               /\ SendReturned(h) => Methods(h.requests) = <<"GET", "POST">>

\* the check of a record that is there timed out, and a create was sent
C5_Witness ==
    \E r \in Runs :
        /\ SendReturned(helper[r])
        /\ helper[r].check_resp.kind = "timeout"
        /\ Methods(helper[r].requests) = <<"GET", "POST">>
        /\ external = 1 /\ records[helper[r].file_id] >= 1

\* C6: send_to_wmt_api on a helper for which is_authenticated() is false
\* returns failure and issues no request.
C6_UnauthenticatedNoRequest ==
    \A r \in Runs :
        LET h == helper[r]
        IN  (SendCalled(h) /\ ~h.authed) =>
               /\ h.op = "idle"
               /\ h.ret = "False"
               /\ h.requests = <<>>

\* a payload with a file_id was sent on a helper whose login had failed
C6_Witness ==
    \E r \in Runs :
        /\ SendReturned(helper[r])
        /\ ~helper[r].authed
        /\ helper[r].login_ret = "False"
        /\ Truthy(helper[r].payload_id)
        /\ helper[r].requests = <<>>

\* the write was not carried out successfully as far as the caller can tell
WriteFailed(h) ==
    \/ h.write_resp.kind \in {"timeout", "connerr"}
    \/ h.write_resp.kind = "status" /\ h.write_resp.status >= 400

\* C7: one send_to_wmt_api call issues at most one existence check and at
\* most one write, and returns failure for every timeout, connection error
\* and error status of the write.
C7_NoRetry ==
    \A r \in Runs :
        LET h == helper[r]
        IN  /\ CountOp(h.requests, "GET") <= 1
            /\ CountOp(h.requests, "POST") + CountOp(h.requests, "PUT") <= 1
            /\ WriteFailed(h) => (SendReturned(h) /\ h.ret = "False")

\* a create timed out: the call returned failure after two requests
C7_Witness ==
    \E r \in Runs :
        /\ SendReturned(helper[r])
        /\ helper[r].write_resp.kind = "timeout"
        /\ helper[r].ret = "False"
        /\ Methods(helper[r].requests) = <<"GET", "POST">>

\* C8: an update is reported successful exactly for status 200 or 204, a
\* create exactly for status 200 or 201.
C8_SuccessCodes ==
    \A r \in Runs :
        LET h == helper[r]
        IN  (SendReturned(h) /\ h.write_resp.kind # "none") =>
               LET method == h.requests[Len(h.requests)].op
               IN  (h.ret = "True") <=>
                      /\ h.write_resp.kind = "status"
                      /\ \/ method = "PUT" /\ h.write_resp.status \in {200, 204}
                         \/ method = "POST" /\ h.write_resp.status \in {200, 201}

\* an update answered 201 is reported as a failure
C8_Witness ==
    \E r \in Runs :
        /\ SendReturned(helper[r])
        /\ Methods(helper[r].requests) = <<"GET", "PUT">>
        /\ helper[r].write_resp = Resp("status", 201, TRUE)
        /\ helper[r].ret = "False"

\* C9: the record id of a run is the file_id of the source blob's metadata
\* when that is non-empty, else the notification's id; when both are empty
\* no record API request is made.
C9_RecordIdResolution ==
    \A r \in Runs :
        run[r].downloaded =>
           /\ run[r].blob_file_id # <<>> => run[r].file_id = run[r].blob_file_id
           /\ run[r].blob_file_id = <<>> => run[r].file_id = run[r].evt.id
           /\ (run[r].blob_file_id = <<>> /\ run[r].evt.id = <<>>) =>
                 /\ ~run[r].wmt_called
                 /\ helper[r].requests = <<>>
                 /\ helper[r].op = "idle"

\* a run with neither id ended in success, logged in, without any request
C9_Witness ==
    \E r \in Runs :
        /\ run[r].pc = "done" /\ run[r].result = "success"
        /\ run[r].blob_file_id = <<>> /\ run[r].evt.id = <<>>
        /\ run[r].login_success = "True"
        /\ helper[r].requests = <<>>

\* C10: when login fails, no existence check, create or update request is
\* issued in that run.
C10_LoginFailureSkipsUpsert ==
    \A r \in Runs :
        run[r].login_success = "False" => helper[r].requests = <<>>

\* the run is over and its send_to_wmt_api call returned failure
UpsertFailed(r) ==
    run[r].pc = "done" /\ run[r].wmt_called /\ helper[r].ret = "False"

\* C11 as stated: when the upsert call of a run fails, the run is marked
\* failed: its result is not a success and the handler raises.
C11_UpsertFailureFailsRun ==
    \A r \in Runs :
        UpsertFailed(r) => (run[r].result # "success" /\ run[r].outcome = "raised")

\* C11, amended: when the upsert call of a run fails, the failure is only
\* logged: the run reports success and the handler returns normally.
C11_UpsertFailureOnlyLogged ==
    \A r \in Runs :
        UpsertFailed(r) => (run[r].result = "success" /\ run[r].outcome = "returned")

\* a run whose create was answered 500 has ended
C11_Witness ==
    \E r \in Runs :
        /\ UpsertFailed(r)
        /\ Methods(helper[r].requests) = <<"GET", "POST">>
        /\ helper[r].write_resp = Resp("status", 500, FALSE)
        /\ run[r].login_success = "True"

\* the run of a notification that passed the filters is over without both
\* artifacts (the classified copy and the report) written
ArtifactsMissing(r) ==
    /\ run[r].pc = "done" /\ run[r].decision = "process"
    /\ ~(run[r].upload_ok /\ run[r].json_ok)

\* no request to the login service, the classification service or the
\* object store was sent twice in the run
NoStageRepeated(r) ==
    \A i, j \in DOMAIN calls[r] : calls[r][i] = calls[r][j] => i = j

\* C12 as stated: whenever the run of a notification that passed the
\* filters does not produce the expected artifacts, the handler raises to
\* the trigger; no stage is retried.
C12_FailureRaises ==
    \A r \in Runs :
        /\ ArtifactsMissing(r) => run[r].outcome = "raised"
        /\ NoStageRepeated(r)

\* C12, amended: when classification, the classified upload or the report
\* write fails, or the run times out, the handler raises; when the source
\* download fails the handler returns normally after that one request; no
\* stage is retried.
C12_FailureRaisesExceptDownload ==
    \A r \in Runs :
        /\ ArtifactsMissing(r) =>
              IF run[r].downloaded
              THEN run[r].outcome = "raised" /\ run[r].result \in {"failed", "timeout"}
              ELSE /\ run[r].outcome = "returned"
                   /\ Methods(calls[r]) = <<"DOWNLOAD">>
                   /\ helper[r].requests = <<>>
        /\ NoStageRepeated(r)

\* a run whose source download failed has returned to the trigger
C12_Witness ==
    \E r \in Runs :
        /\ ArtifactsMissing(r) /\ ~run[r].downloaded
        /\ run[r].outcome = "returned"
        /\ Methods(calls[r]) = <<"DOWNLOAD">>

\* a call of the run timed out: a stage of the pipeline, the whole run, or
\* a request to the record API
AnyTimeout(r) ==
    \/ run[r].timed_out # "none"
    \/ helper[r].check_resp.kind = "timeout"
    \/ helper[r].write_resp.kind = "timeout"

\* C13 as stated: a timeout in any stage aborts the run: no later stage is
\* started and the run is reported as failed.
C13_TimeoutAbortsRun ==
    \A r \in Runs :
        /\ AnyTimeout(r) =>
              /\ run[r].pc = "done" => run[r].result # "success"
              /\ helper[r].check_resp.kind = "timeout" =>
                    Methods(helper[r].requests) = <<"GET">>
        /\ NoStageRepeated(r)

\* C13, amended: a timeout of the classification call, of the classified
\* upload, of the report write or of the whole run aborts the run with an
\* exception and no later request; a timeout of the source download ends
\* the run with a normal return; a timeout of the metadata update or of a
\* record API request does not abort the run, which goes on (a create
\* follows a timed-out existence check) and reports success; nothing is
\* retried.
C13_TimeoutByStage ==
    \A r \in Runs :
        LET rn == run[r]
            last == calls[r][Len(calls[r])].op
        IN  /\ rn.timed_out \in {"classify", "run", "upload", "report"} =>
                  /\ rn.pc = "done" /\ rn.outcome = "raised" /\ rn.result # "success"
                  /\ last = (IF rn.timed_out \in {"classify", "run"} THEN "CLASSIFY"
                                                                        ELSE "UPLOAD")
                  /\ CountOp(calls[r], "UPLOAD") =
                        (CASE rn.timed_out = "upload" -> 1
                           [] rn.timed_out = "report" -> 2
                           [] OTHER -> 0)
                  /\ helper[r].requests = <<>>
            /\ rn.timed_out = "download" =>
                  /\ rn.pc = "done" /\ rn.outcome = "returned"
                  /\ Methods(calls[r]) = <<"DOWNLOAD">>
            /\ (rn.pc = "done" /\ rn.timed_out = "metadata") => rn.result = "success"
            /\ (rn.pc = "done" /\ rn.wmt_called
                   /\ (helper[r].check_resp.kind = "timeout"
                          \/ helper[r].write_resp.kind = "timeout")) =>
                  /\ rn.result = "success"
                  /\ helper[r].check_resp.kind = "timeout" =>
                        Methods(helper[r].requests) = <<"GET", "POST">>
            /\ NoStageRepeated(r)
            /\ CountOp(helper[r].requests, "GET") <= 1
            /\ CountOp(helper[r].requests, "POST") + CountOp(helper[r].requests, "PUT") <= 1

\* a run whose existence check timed out sent the create and reported
\* success
C13_Witness ==
    \E r \in Runs :
        /\ run[r].pc = "done" /\ run[r].result = "success"
        /\ helper[r].check_resp.kind = "timeout"
        /\ Methods(helper[r].requests) = <<"GET", "POST">>

\* the requests of a run up to the report, in the order of the stages
\* (the login request goes to the login service between download and
\* classification)
StageOrder == <<"DOWNLOAD", "LOGIN", "CLASSIFY", "UPLOAD", "UPLOAD">>

\* C14: the stages of a run happen in the order normalize, classify,
\* upload, report, upsert, each one only after the one before it succeeded:
\* the classification call follows a successful download of a notification
\* that passed the filters, the classified upload a successful
\* classification, the report write a successful upload, and every later
\* object-store request and every record API request a written report.
C14_StageOrder ==
    \A r \in Runs :
        LET n == Len(calls[r])
        IN  /\ \A i \in 1..n : i <= 5 => calls[r][i].op = StageOrder[i]
            /\ n >= 1 => run[r].decision = "process"
            /\ n >= 2 => run[r].downloaded
            /\ n >= 4 => /\ run[r].classification_result.present
                         /\ calls[r][4].target[1] = CLASSIFICATION_CONTAINER
            /\ n >= 5 => /\ run[r].upload_ok
                         /\ calls[r][5].target[1] = RESULTS_CONTAINER
            /\ n >= 6 => run[r].json_ok
            /\ helper[r].requests # <<>> =>
                  /\ run[r].upload_ok /\ run[r].json_ok
                  /\ n >= 5
                  /\ run[r].pc \in {"return", "done"}

\* a run went through every stage and ended after its upsert
C14_Witness ==
    \E r \in Runs :
        /\ run[r].pc = "done" /\ run[r].result = "success"
        /\ Len(calls[r]) >= 5
        /\ Methods(helper[r].requests) = <<"GET", "PUT">>
        /\ helper[r].ret = "True"

\* invocation r received a message and returned without any request
SkippedQuietly(r) ==
    /\ run[r].pc = "done" /\ run[r].outcome = "returned"
    /\ run[r].result = "none"
    /\ calls[r] = <<>> /\ helper[r] = InitHelper

ReceivedCreation(r) ==
    /\ run[r].pc # "idle"
    /\ run[r].evt.wellFormed /\ run[r].evt.dataTruthy
    /\ run[r].evt.type = BlobCreated

\* C16: a creation notification whose object key contains '_classified'
\* anywhere, in any letter case, is skipped: the handler returns without
\* error and without any request.
C16_MarkerAnywhereSkipped ==
    \A r \in Runs :
        (ReceivedCreation(r)
           /\ Contains(Lower(run[r].blob_name),
                       <<"_","c","l","a","s","s","i","f","i","e","d">>))
            => (SkippedQuietly(r) /\ run[r].decision = "skip")

\* C17: a notification whose type is not BlobCreated is skipped: the
\* handler returns normally and makes no request.
C17_OtherTypeSkipped ==
    \A r \in Runs :
        (run[r].pc # "idle" /\ run[r].evt.wellFormed /\ run[r].evt.type # BlobCreated)
            => SkippedQuietly(r)

\* a deletion notification for the input blob was skipped
C17_Witness ==
    \E r \in Runs :
        /\ SkippedQuietly(r)
        /\ run[r].evt.type = BlobDeleted
        /\ run[r].evt.subject = SubjInvoice
        /\ run[r].decision = "skip"

\* C18: a message whose body does not decode as JSON is dropped: the
\* handler makes no request and does not raise to the trigger.
C18_MalformedDropped ==
    \A r \in Runs :
        (run[r].pc # "idle" /\ ~run[r].evt.wellFormed)
            => (run[r].pc = "done" /\ run[r].outcome = "returned" /\ calls[r] = <<>>)

\* C19: a decodable notification without type or data, or a creation
\* notification for which the subject and the URL leave the container or
\* the key empty, ends as a parse failure: the handler returns before any
\* request and does not raise.
C19_InvalidReturns ==
    \A r \in Runs :
        (/\ run[r].pc # "idle"
         /\ run[r].evt.wellFormed
         /\ \/ run[r].evt.type = ""
            \/ ~run[r].evt.dataTruthy
            \/ /\ run[r].evt.type = BlobCreated
               /\ run[r].container_name = <<>> \/ run[r].blob_name = <<>>)
            => (SkippedQuietly(r) /\ run[r].decision = "invalid")

\* a creation notification with neither subject nor URL ended so
C19_Witness ==
    \E r \in Runs :
        /\ SkippedQuietly(r) /\ run[r].decision = "invalid"
        /\ ReceivedCreation(r)
        /\ run[r].evt.subject = <<>> /\ run[r].evt.url = <<>> /\ run[r].evt.blobUrl = <<>>
        /\ run[r].blob_name = <<>>

\* the positions at which seg starts as a whole '/'-delimited segment of s
SegmentStarts(s, seg) ==
    { p \in 1..(Len(s) - Len(seg) + 1) :
        /\ SubSeq(s, p, p + Len(seg) - 1) = seg
        /\ p = 1 \/ s[p - 1] = "/"
        /\ p + Len(seg) > Len(s) \/ s[p + Len(seg)] = "/" }

\* what follows the '/' that ends the first segment seg of s
RestAfter(s, seg) ==
    LET p == CHOOSE q \in SegmentStarts(s, seg) :
                 \A q2 \in SegmentStarts(s, seg) : q <= q2
    IN  SubSeq(s, p + Len(seg) + 1, Len(s))

\* s up to its first '/'
UpToSlash(s) ==
    IF \E i \in 1..Len(s) : s[i] = "/"
    THEN SubSeq(s, 1, (CHOOSE i \in 1..Len(s) :
                          s[i] = "/" /\ \A j \in 1..(i - 1) : s[j] # "/") - 1)
    ELSE s

\* C20: for a subject with the segments 'containers' and 'blobs', the
\* extraction gives as container the segment that follows 'containers' and
\* as key everything that follows 'blobs/', slashes included; the subject
\* '/blobServices/default/containers/stampedstorage/blobs/folder/file.pdf'
\* gives container 'stampedstorage' and key 'folder/file.pdf'.
C20_SubjectExtraction ==
    \A r \in Runs :
        LET subject == run[r].evt.subject
            containers == <<"c","o","n","t","a","i","n","e","r","s">>
            blobs == <<"b","l","o","b","s">>
        IN  (run[r].pc \notin {"idle", "queued"} /\ ReceivedCreation(r)) =>
               /\ (SegmentStarts(subject, containers) # {}
                     /\ SegmentStarts(subject, blobs) # {}) =>
                       run[r].subject_identity =
                          << UpToSlash(RestAfter(subject, containers)),
                             RestAfter(subject, blobs) >>
               /\ subject = ExampleSubject =>
                       run[r].subject_identity = << INPUT_CONTAINER, <<"f","o","l","d","e","r","/","f","i","l","e",".","p","d","f">> >>

\* the subject of the example was handled
C20_Witness ==
    \E r \in Runs :
        /\ run[r].pc = "download"
        /\ run[r].evt.subject = ExampleSubject
        /\ run[r].container_name = <<"s","t","a","m","p","e","d","s","t","o","r","a","g","e">>
        /\ run[r].blob_name = <<"f","o","l","d","e","r","/","f","i","l","e",".","p","d","f">>

\* s after its first '/'
AfterSlash(s) ==
    SubSeq(s, (CHOOSE i \in 1..Len(s) :
                  s[i] = "/" /\ \A j \in 1..(i - 1) : s[j] # "/") + 1, Len(s))

\* the number of '/' in s
Slashes(s) == Cardinality({ i \in 1..Len(s) : s[i] = "/" })

\* the URL of the notification: 'url', or 'blobUrl' when 'url' is empty
UrlOf(evt) == IF evt.url # <<>> THEN evt.url ELSE evt.blobUrl

\* C21: the identity is the one the subject yields whenever that has a
\* non-empty key (the URL is not consulted); when the subject yields an
\* empty key, the container is element 3 and the key is everything after
\* element 3 of the URL split on '/', and without such a URL the key stays
\* empty.
C21_UrlFallback ==
    \A r \in Runs :
        LET url == UrlOf(run[r].evt)
            identity == << run[r].container_name, run[r].blob_name >>
        IN  (run[r].pc \notin {"idle", "queued"} /\ ReceivedCreation(r)) =>
               IF run[r].subject_identity[2] # <<>>
               THEN identity = run[r].subject_identity
               ELSE IF Slashes(url) >= 4
                    THEN identity =
                           << UpToSlash(AfterSlash(AfterSlash(AfterSlash(url)))),
                              AfterSlash(AfterSlash(AfterSlash(AfterSlash(url)))) >>
                    ELSE run[r].blob_name = <<>>

\* a notification without subject took container and key from its blobUrl
C21_Witness ==
    \E r \in Runs :
        /\ run[r].pc = "download"
        /\ run[r].evt.subject = <<>> /\ run[r].evt.url = <<>>
        /\ run[r].evt.blobUrl = UrlFolder
        /\ run[r].container_name = INPUT_CONTAINER
        /\ run[r].blob_name = <<"f","o","l","d","e","r","/","f","i","l","e",".","p","d","f">>

\* C22: a creation notification whose key does not end in '.pdf', letter
\* case ignored, or whose container is not the input container, is
\* skipped: the handler returns without error and without any request.
C22_NotInputPdfSkipped ==
    \A r \in Runs :
        (/\ run[r].pc \notin {"idle", "queued"} /\ ReceivedCreation(r)
         /\ \/ ~EndsWith(Lower(run[r].blob_name), <<".","p","d","f">>)
            \/ run[r].container_name # INPUT_CONTAINER)
        => SkippedQuietly(r)

\* 'notes.txt' of the input container and 'invoice.pdf' of another
\* container were skipped
C22_Witness ==
    \E r \in Runs :
        /\ SkippedQuietly(r) /\ run[r].decision = "skip"
        /\ \/ /\ run[r].container_name = INPUT_CONTAINER
              /\ run[r].blob_name = <<"n","o","t","e","s",".","t","x","t">>
           \/ /\ run[r].container_name = RESULTS_CONTAINER
              /\ run[r].blob_name = <<"i","n","v","o","i","c","e",".","p","d","f">>

\* the objects invocation r sent a write for
Uploads(r) ==
    { calls[r][i].target : i \in { j \in DOMAIN calls[r] : calls[r][j].op = "UPLOAD" } }

\* C23: two runs for two different input objects write no common object:
\* when both have ended with success, no object of the store was written
\* by both.
C23_RunsIndependent ==
    \A r1, r2 \in Runs :
        (/\ r1 # r2
         /\ run[r1].pc = "done" /\ run[r1].result = "success"
         /\ run[r2].pc = "done" /\ run[r2].result = "success"
         /\ <<run[r1].container_name, run[r1].blob_name>>
               # <<run[r2].container_name, run[r2].blob_name>>)
        => Uploads(r1) \cap Uploads(r2) \cap objects = {}

\* invocation r handled the creation notification of 'invoice.pdf' of the
\* input container, downloaded a non-empty content and got a classification
\* response of category 'Invoice'
InvoiceClassified(r) ==
    /\ ReceivedCreation(r) /\ run[r].evt.subject = SubjInvoice
    /\ run[r].downloaded
    /\ run[r].classification_result.present
    /\ run[r].classification_result.classification = CatInvoice

InvoiceArtifacts ==
    { <<CLASSIFICATION_CONTAINER, <<"i","n","v","o","i","c","e","_","c","l","a","s","s","i","f","i","e","d","_","I","n","v","o","i","c","e",".","p","d","f">>>>,
      <<RESULTS_CONTAINER, <<"i","n","v","o","i","c","e","_","c","l","a","s","s","i","f","i","c","a","t","i","o","n","_","r","e","s","u","l","t",".","j","s","o","n">>>> }

\* C24 as stated: the run of 'invoice.pdf' with a successful download and
\* the category 'Invoice' ends with overall success, the handler does not
\* raise, and 'invoice_classified_Invoice.pdf' and
\* 'invoice_classification_result.json' are written.
C24_EndToEnd ==
    \A r \in Runs :
        (run[r].pc = "done" /\ InvoiceClassified(r)) =>
            /\ run[r].result = "success" /\ run[r].outcome = "returned"
            /\ InvoiceArtifacts \subseteq objects

\* C24, amended: the same when the two writes to the object store succeed;
\* the two objects are in the store from the moment the second write is
\* done, and the content of the copy is the non-empty downloaded content.
\* When one of the two writes fails, the run fails and the handler raises.
C24_EndToEndWhenWritten ==
    \A r \in Runs :
        InvoiceClassified(r) =>
            IF run[r].upload_ok /\ run[r].json_ok
            THEN /\ InvoiceArtifacts \subseteq objects
                 /\ run[r].pc = "done" =>
                       run[r].result = "success" /\ run[r].outcome = "returned"
            ELSE run[r].pc = "done" =>
                       run[r].result = "failed" /\ run[r].outcome = "raised"

\* such a run ended with success
C24_Witness ==
    \E r \in Runs :
        /\ InvoiceClassified(r) /\ run[r].upload_ok /\ run[r].json_ok
        /\ run[r].pc = "done" /\ run[r].result = "success"
        /\ InvoiceArtifacts \subseteq objects

\* sanitize_metadata_value was applied to the argument
Sanitized == probe.fn = "sanitize" /\ probe.stage >= 1

\* C25: newline, carriage return and tab become single spaces:
\* sanitize('Text with\nnewlines\rand\ttabs') is
\* 'Text with newlines and tabs'.
C25_NewlinesBecomeSpaces ==
    (Sanitized /\ probe.value = TestNewlines) =>
        probe.result = <<"T","e","x","t"," ","w","i","t","h"," ","n","e","w","l","i","n","e","s"," ","a","n","d"," ","t","a","b","s">>

\* the characters of s of ordinal 32 to 126
PrintablePart(s) ==
    SelectSeq(s, LAMBDA c : \E i \in 1..Len(Ascii) : Ascii[i] = c)

\* the length of the words of s with one space between two words, a word
\* being a maximal run of characters other than the space
CollapsedLen(s) ==
    LET letters == { i \in 1..Len(s) : s[i] # " " }
        starts == { i \in letters : i = 1 \/ s[i - 1] = " " }
    IN  Cardinality(letters) + (IF starts = {} THEN 0 ELSE Cardinality(starts) - 1)

C27_Idempotent ==
    (probe.fn = "sanitize" /\ probe.stage = 2) => probe.again = probe.result

\* the function was applied twice to an input with runs of spaces that is
\* truncated
C27_Witness ==
    /\ probe.fn = "sanitize" /\ probe.stage = 2
    /\ probe.value = Fill(<<"a", " ", " ">>, 3 * 250)
    /\ Len(probe.result) = 250 /\ probe.again = probe.result
    /\ EndsWith(probe.result, <<" ", "a", ".", ".", ".">>)

\* C28: every character of a result has an ordinal between 32 and 126.
C28_PrintableOnly ==
    Sanitized =>
        \A i \in 1..Len(probe.result) :
            Ord[probe.result[i]] >= 32 /\ Ord[probe.result[i]] <= 126

\* an input with characters of ordinal 127 and 233 gave a non-empty result
C28_Witness ==
    /\ Sanitized
    /\ probe.value = <<"a", DEL, EAcute>>
    /\ probe.result = <<"a">>

\* C29: a control character is deleted and the characters around it are
\* left as they are: sanitize('Control char: \x1f test') is
\* 'Control char:  test', with two spaces.
C29_ControlCharDeleted ==
    (Sanitized /\ probe.value = TestControl) =>
        probe.result = <<"C","o","n","t","r","o","l"," ","c","h","a","r",":"," "," ","t","e","s","t">>

\* the handler was applied to the response
Handled == probe.fn = "response" /\ probe.stage = 1

Unknown == <<"u","n","k","n","o","w","n">>

\* what .get('Predicted Category', 'unknown') gives on an element
CategoryOf(element) ==
    IF element.category = NoneVal THEN Unknown ELSE element.category

\* the three recognized shapes
TopLevelShape(d) ==
    d.t = "object" /\ d.json.t = "array" /\ Len(d.json.items) > 0
NestedShape(d) ==
    /\ d.t = "object" /\ d.classification_result.t = "object"
    /\ d.classification_result.json.t = "array"
FlatShape(d) == d.t = "object" /\ d.classification # NoneVal

\* the categories a response carries, in whichever of its shapes
CarriedCategories(d) ==
    (IF TopLevelShape(d) THEN {CategoryOf(d.json.items[1])} ELSE {})
    \cup (IF NestedShape(d)
          THEN { CategoryOf(d.classification_result.json.items[i]) :
                    i \in DOMAIN d.classification_result.json.items } \cup {Unknown}
          ELSE {})
    \cup (IF FlatShape(d) THEN {d.classification} ELSE {})

Readable(element) == element.t = "object" /\ element.verdict # "number"

LoginCalled == probe.fn = "login" /\ probe.stage >= 1

\* the response carries no token: it is no JSON, or has 'accessToken'
\* neither under data.tokens nor at the top
LacksToken(resp) ==
    \/ ~resp.body.json
    \/ resp.body.nested = NoneVal /\ resp.body.flat = NoneVal

\* C31: login never raises; it returns failure for a network error, for a
\* status that is not 2xx and for a response without the token field, and
\* success only when the response gave a token, which is then the stored
\* token and the token of the session's header.
C31_LoginNeverRaises ==
    LoginCalled =>
        LET h == helper[1]
            resp == probe.value
        IN  /\ h.login_ret \in {"True", "False"}
            /\ (\/ resp.kind = "neterr"
                \/ resp.status \notin 200..299
                \/ LacksToken(resp)) => h.login_ret = "False"
            /\ h.login_ret = "True" =>
                  /\ resp.kind = "http" /\ resp.status = 200
                  /\ Truthy(h.token)
                  /\ h.token \in {resp.body.nested, resp.body.flat}
                  /\ h.header = h.token

\* a call that met a network error returned failure, after one that had
\* succeeded
C31_Witness ==
    /\ LoginCalled /\ probe.stage = 2
    /\ probe.value.kind = "neterr"
    /\ probe.before.login_ret = "True"
    /\ helper[1].login_ret = "False"

\* C35: after login() on a freshly constructed helper, is_authenticated()
\* is true if and only if login returned success, whatever the response.
C35_LoginAgreesWithAuthenticated ==
    (LoginCalled /\ probe.stage = 1) =>
        (is_authenticated(helper[1]) <=> helper[1].login_ret = "True")

\* C36: after any sequence of login attempts the session carries a bearer
\* header if and only if is_authenticated() is true, and the token of the
\* header is the stored token.
C36_HeaderAgreesWithToken ==
    LoginCalled =>
        /\ helper[1].header # NoneVal <=> is_authenticated(helper[1])
        /\ helper[1].header # NoneVal => helper[1].header = helper[1].token

\* a login of helper r has succeeded: only that sets the session's header
LoggedIn(r) == helper[r].header # NoneVal

\* C32: once a login has succeeded, every request the helper sends
\* (existence check, create, update) carries the bearer header with the
\* token of the latest successful login: a successful login leaves that
\* token in the header, nothing but a successful login changes the header,
\* and every request sent carries the header.
C32_BearerAfterLogin ==
    /\ [](\A r \in Runs :
             helper[r].login_ret = "True" =>
                 Truthy(helper[r].token) /\ helper[r].header = helper[r].token)
    /\ [][\A r \in Runs :
             /\ helper'[r].header # helper[r].header =>
                   /\ helper'[r].login_ret = "True"
                   /\ helper'[r].header = helper'[r].token
             /\ (LoggedIn(r) /\ Len(helper'[r].requests) > Len(helper[r].requests)) =>
                   /\ helper'[r].requests[Len(helper'[r].requests)].auth
                         = helper[r].header
                   /\ helper'[r].header = helper[r].header]_vars

\* after a login that succeeded and one that met an error, the existence
\* check and the write carried the token of the first
C32_Witness ==
    \E r \in Runs :
        /\ SendReturned(helper[r]) /\ helper[r].login_ret = "False"
        /\ Len(helper[r].requests) = 2
        /\ \A i \in 1..2 : helper[r].requests[i].auth = Token1
        /\ helper[r].header = Token1

\* the characters of s other than the space
WithoutSpaces(s) == SelectSeq(s, LAMBDA c : c # " ")

FoundAbsent(r) == helper[r].check_resp = Resp("status", 404, FALSE)

\* C34: the write follows what the existence check found, not what the
\* store holds when the write is sent: a helper whose check found the id
\* absent sends a create, also when the other run or another actor has
\* created the record since the check.
C34_CheckThenWriteNotAtomic ==
    \A r \in Runs :
        (FoundAbsent(r) /\ Len(helper[r].requests) = 2) =>
            /\ helper[r].requests[2].op = "POST"
            /\ helper[r].requests[2].target = helper[r].file_id

\* both runs found the same id absent, another actor created the record,
\* and both runs created it again: the store holds three records
C34_Witness ==
    /\ \A r \in Runs :
          /\ FoundAbsent(r) /\ helper[r].file_id = FileId1
          /\ Methods(helper[r].requests) = <<"GET", "POST">>
          /\ helper[r].ret = "True"
    /\ external = 1
    /\ records[FileId1] = 3

\* the metadata-JSON update of run r is over and has failed
MetadataFailed(r) ==
    /\ run[r].json_ok /\ run[r].pc \in {"dispatch", "return", "done"}
    /\ ~run[r].metadata_ok

\* C37: a failed metadata-JSON update does not fail the run, which reports
\* success; with a record id and an authenticated helper, send_to_wmt_api
\* is called with the fallback payload, whose file_id is the record id of
\* the run.
C37_MetadataFailureTolerated ==
    \A r \in Runs :
        MetadataFailed(r) =>
            /\ run[r].pc = "done" =>
                  run[r].result = "success" /\ run[r].outcome = "returned"
            /\ (/\ run[r].pc \in {"return", "done"}
                /\ run[r].file_id # <<>> /\ is_authenticated(helper[r])) =>
                  /\ run[r].wmt_called /\ SendCalled(helper[r])
                  /\ run[r].payload_source = "fallback"
                  /\ run[r].payload_file_id = run[r].file_id
                  /\ helper[r].payload_id = run[r].file_id
                  /\ \A i \in DOMAIN helper[r].requests :
                        helper[r].requests[i].target = run[r].file_id

\* a run whose metadata file was read and could not be written back ended
\* with success after the existence check and the create for its record id
C37_Witness ==
    \E r \in Runs :
        /\ MetadataFailed(r)
        /\ run[r].pc = "done" /\ run[r].result = "success"
        /\ MetadataBlob(run[r].file_id) \in Uploads(r)
        /\ MetadataBlob(run[r].file_id) \notin objects
        /\ run[r].file_id = FileId1 /\ run[r].evt.id = EventId1
        /\ Methods(helper[r].requests) = <<"GET", "POST">>
        /\ helper[r].requests[1].target = FileId1

\* the classified copy and the report of invocation r
ClassifiedBlobOf(r) ==
    <<CLASSIFICATION_CONTAINER,
      ClassifiedFilename(run[r].file_name,
          ClassificationOf(run[r].classification_result))>>

ReportBlobOf(r) == <<RESULTS_CONTAINER, JsonFilename(run[r].file_name)>>

\* the positions in the requests of invocation r of the writes of blob
WritesOf(r, blob) ==
    { i \in DOMAIN calls[r] :
        calls[r][i].op = "UPLOAD" /\ calls[r][i].target = blob }

\* C38: a run that reports success wrote the classified copy and then the
\* report, both in the object store; a run whose classified upload failed
\* sent no write for the report; a run with a failed write of either
\* reports failure.
C38_SuccessMeansBothWritten ==
    \A r \in Runs :
        /\ (run[r].pc = "done" /\ run[r].result = "success") =>
              /\ run[r].upload_ok /\ run[r].json_ok
              /\ ClassifiedBlobOf(r) \in objects /\ ReportBlobOf(r) \in objects
              /\ WritesOf(r, ClassifiedBlobOf(r)) # {}
              /\ WritesOf(r, ReportBlobOf(r)) # {}
              /\ \A i \in WritesOf(r, ClassifiedBlobOf(r)) :
                    \A j \in WritesOf(r, ReportBlobOf(r)) : i < j
        /\ (run[r].classification_result.present /\ ~run[r].upload_ok) =>
              /\ WritesOf(r, ReportBlobOf(r)) = {}
              /\ run[r].pc \in {"upload", "done"}
              /\ (run[r].pc = "done" /\ WritesOf(r, ClassifiedBlobOf(r)) # {}) =>
                    run[r].result = "failed"
        /\ (run[r].upload_ok /\ ~run[r].json_ok) =>
              /\ run[r].pc \in {"report", "done"}
              /\ (run[r].pc = "done" /\ WritesOf(r, ReportBlobOf(r)) # {}) =>
                    run[r].result = "failed"

\* a run failed at its upload and sent no write for the report
UploadFailedRun(r) ==
    /\ run[r].pc = "done" /\ run[r].result = "failed"
    /\ ~run[r].upload_ok
    /\ WritesOf(r, ClassifiedBlobOf(r)) = {4}
    /\ ClassifiedBlobOf(r) \notin objects

\* a run failed at the report with the classified copy in the store
ReportFailedRun(r) ==
    /\ run[r].pc = "done" /\ run[r].result = "failed"
    /\ run[r].upload_ok /\ ~run[r].json_ok
    /\ WritesOf(r, ReportBlobOf(r)) = {5}
    /\ ClassifiedBlobOf(r) \in objects /\ ReportBlobOf(r) \notin objects

\* a run ended with success after the write of the classified copy and
\* then the write of the report
C38_Witness ==
    \E r \in Runs :
        /\ run[r].pc = "done" /\ run[r].result = "success"
        /\ WritesOf(r, ClassifiedBlobOf(r)) = {4}
        /\ WritesOf(r, ReportBlobOf(r)) = {5}
        /\ ~UploadFailedRun(r) /\ ~ReportFailedRun(r)

=============================================================================
